---------------------------- MODULE Spec2Model ----------------------------
(***************************************************************************)
(* A model of the CV pipeline of kdelfour/poc_cv_workflow:                   *)
(*   - the run registry active_workflows and the orchestrator               *)
(*     workflow_process (src/app/workflows/pdf_workflow.py),                *)
(*   - the five stages extraction, openai_extraction, openai_matching,      *)
(*     transformation, chargement (src/app/tasks/...),                      *)
(*   - the reference catalog cache get_metiers_reference /                  *)
(*     load_metiers_reference (src/app/tasks/extraction/openai_matching.py),*)
(*   - the two submission endpoints (src/app/api/workflow_endpoints.py).    *)
(*                                                                         *)
(* A Python dict is a function with a set of strings as its domain; the    *)
(* dict display {k: v, **d} is (d @@ [k |-> v]): the keys of d win.         *)
(* A text is a sequence of tokens, each a word or a run of whitespace.     *)
(***************************************************************************)
EXTENDS Integers, Sequences, FiniteSets, TLC

VARIABLES
    active_workflows,           \* the registry: workflow_id -> run record
    pc,                         \* per id: where its request / workflow_process stands
    mode,                       \* per id: which caller started it
    input_data,                 \* per id: the input_data argument of workflow_process
    data,                       \* per id: the record held by workflow_process between stages
    calls,                      \* per id: the stage invocations so far, <<stage, input, output>>
    fault,                      \* per id: the exception caught by workflow_process, if any
    outcome,                    \* per id: what workflow_process gave its caller
    response,                   \* what the GET request made in the last step was answered
    now,                        \* time.time(), in seconds
    metiers_file,               \* the file at METIERS_FILE_PATH
    api_key,                    \* os.environ["OPENAI_API_KEY"]
    _metiers_cache,             \* module global of openai_matching.py
    _metiers_cache_timestamp,   \* module global of openai_matching.py
    ref_call,                   \* the last call of get_metiers_reference, as its caller saw it
    frame                       \* per thread: its call of get_metiers_reference, statement by statement

runVars   == <<pc, mode, input_data, data, calls, fault, outcome, response>>
envVars   == <<now, metiers_file, api_key>>
cacheVars == <<_metiers_cache, _metiers_cache_timestamp, ref_call, frame>>
vars      == <<active_workflows, runVars, envVars, cacheVars>>

-----------------------------------------------------------------------------
(* Bounds of the model *)

MaxTime == 4        \* the clock stops advancing here

(* Program constants *)

CACHE_TTL == 2      \* METIERS_CACHE_TTL, read from the environment

-----------------------------------------------------------------------------
(* Python dicts *)

EmptyDict == [k \in {} |-> TRUE]

Has(d, k) == k \in DOMAIN d

Get(d, k, default) == IF k \in DOMAIN d THEN d[k] ELSE default

\* dict d with d[k] = v set afterwards
Put(d, k, v) == [x \in DOMAIN d \cup {k} |-> IF x = k THEN v ELSE d[x]]

RECURSIVE SumLen(_)
SumLen(s) == IF s = <<>> THEN 0 ELSE Len(Head(s)) + SumLen(Tail(s))

RECURSIVE Flatten(_)
Flatten(ss) == IF ss = <<>> THEN <<>> ELSE Head(ss) \o Flatten(Tail(ss))

IsSpace(tok) == tok \in {" ", "\n\n"}

\* Split counting the runs of whitespace as words
Split_keeps_whitespace(text) == text

\* str.split(): the words of a text, whitespace dropped
Split(text) == SelectSeq(text, LAMBDA tok : ~IsSpace(tok))

-----------------------------------------------------------------------------
(* Uploaded files.  A file's bytes are named; PdfReader says what PyPDF2    *)
(* makes of them: the pages' texts and the document information, or a      *)
(* fault.  A base64 text is kept apart from the bytes it encodes.           *)

Bytes == {"cv2p", "scan1p", "blank0p", "garbage"}

b64encode(bytes) == [enc |-> "base64", of |-> bytes]

\* base64.b64decode: the bytes back, or a fault for a text that is no base64
b64decode(text) ==
    IF text.enc = "base64"
    THEN [ok |-> TRUE, bytes |-> text.of]
    ELSE [ok |-> FALSE, error |-> "Incorrect padding"]

\* PdfReader making an empty document of bytes that are no PDF
PdfReader_reads_anything(bytes) ==
    [ok |-> TRUE, size |-> 1, pages |-> <<>>, metadata |-> EmptyDict]

PdfReader(bytes) ==
    CASE bytes = "cv2p" ->
           [ok |-> TRUE, size |-> 7,
            pages |-> << <<"Comptable", " ", "chez", " ", "Acme">>,
                         <<"COMPTABLE", " ", "Paris", " ", "et", " ", "Acme">> >>,
            metadata |-> [k \in {"/Title", "/Language"} |->
                            IF k = "/Title" THEN "CV" ELSE "fr-FR"]]
      [] bytes = "scan1p" ->
           [ok |-> TRUE, size |-> 5, pages |-> << <<>> >>, metadata |-> EmptyDict]
      [] bytes = "blank0p" ->
           [ok |-> TRUE, size |-> 3, pages |-> <<>>, metadata |-> EmptyDict]
      [] OTHER ->
           [ok |-> FALSE, error |-> "EOF marker not found"]

\* k.lower().replace('/', '_') on the keys of the document information
MetadataKey(k) ==
    CASE k = "/Title" -> "_title"
      [] k = "/Language" -> "_language"
      [] OTHER -> k

NormalizedMetadata(md) ==
    [n \in {MetadataKey(k) : k \in DOMAIN md} |->
        md[CHOOSE k \in DOMAIN md : MetadataKey(k) = n]]

\* pdf_text += page.extract_text() + "\n\n", page after page
RECURSIVE PdfText(_)
PdfText(pages) ==
    IF pages = <<>> THEN <<>>
    ELSE Head(pages) \o <<"\n\n">> \o PdfText(Tail(pages))

\* extraction that reports a document where there is none
extraction_marks_available(d, t) ==
    [extracted |-> d, step |-> "extraction", pdf_available |-> TRUE]

\* The stage extraction(data), run at time t.
extraction(d, t) ==
    IF Has(d, "pdf_content_b64")
    THEN LET dec == b64decode(d["pdf_content_b64"])
             pdf == IF dec.ok THEN PdfReader(dec.bytes) ELSE dec
         IN  IF pdf.ok
             THEN [extracted |->
                     [pdf_filename |-> Get(d, "pdf_filename", "document.pdf"),
                      content_type |-> Get(d, "content_type", "application/pdf"),
                      pdf_size_bytes |-> pdf.size,
                      num_pages |-> Len(pdf.pages),
                      text_content |-> PdfText(pdf.pages),
                      metadata |-> [source |-> "pdf_upload", extraction_time |-> t]
                                     @@ NormalizedMetadata(pdf.metadata)],
                   step |-> "extraction",
                   pdf_available |-> TRUE]
             ELSE [extracted |->
                     [pdf_filename |-> Get(d, "pdf_filename", "document.pdf"),
                      error |-> pdf.error,
                      metadata |-> [source |-> "pdf_upload", extraction_time |-> t,
                                    extraction_success |-> FALSE]],
                   step |-> "extraction",
                   pdf_available |-> TRUE,
                   extraction_error |-> pdf.error]
    ELSE [extracted |-> d, step |-> "extraction", pdf_available |-> FALSE]

-----------------------------------------------------------------------------
(* The structured-extraction service.  A reply is what                      *)
(* client.chat.completions.create gives: it raises, or its content is None, *)
(* or a text.  A text that parses as JSON carries a JSON value; JSON values *)
(* are tagged with their type (t) where the code tests it with isinstance. *)

ERROR_NO_PDF_DATA == "Pas de données PDF disponibles ou erreur lors de l'extraction initiale"
ERROR_NO_TEXT_CONTENT == "Aucun contenu textuel disponible pour l'analyse"
ERROR_API_KEY_MISSING == "Clé API OpenAI non configurée dans le fichier .env"

FORMATION_SCHEMA == {"periode", "diplome", "etablissement", "description"}
EXPERIENCE_SCHEMA == {"periode", "poste", "entreprise", "description", "competences"}

JList(items) == [t |-> "list", v |-> items]
JDict(d) == [t |-> "dict", v |-> d]
JStr(s) == [t |-> "str", v |-> s]
JNull == [t |-> "null", v |-> "null"]

\* iterating a JSON value with for: its items, or a TypeError
JIter(j) ==
    CASE j.t = "list" -> [ok |-> TRUE, items |-> j.v]
      [] j.t = "str" -> [ok |-> TRUE, items |-> <<>>]   \* characters: none is a dict
      [] j.t = "dict" -> [ok |-> TRUE, items |-> <<>>]  \* keys: none is a dict
      [] OTHER -> [ok |-> FALSE, items |-> <<>>]

RECURSIVE _validate_formations(_)
_validate_formations(formations) ==
    IF formations = <<>> THEN <<>>
    ELSE LET formation == Head(formations)
             rest == _validate_formations(Tail(formations))
         IN  IF formation.t # "dict" THEN rest
             ELSE LET validated_formation ==
                        [periode |-> Get(formation.v, "periode", ""),
                         diplome |-> Get(formation.v, "diplome", ""),
                         etablissement |-> Get(formation.v, "etablissement", ""),
                         description |-> Get(formation.v, "description", "")]
                  IN  IF FORMATION_SCHEMA \subseteq DOMAIN validated_formation
                      THEN <<validated_formation>> \o rest
                      ELSE rest

\* _validate_experiences dropping the records that lack a field of the schema
_validate_experiences_drops_partial(experiences) ==
    LET whole(e) == e.t = "dict" /\ EXPERIENCE_SCHEMA \subseteq DOMAIN e.v
        kept == SelectSeq(experiences, whole)
    IN  [i \in 1..Len(kept) |->
            [periode |-> kept[i].v["periode"],
             poste |-> kept[i].v["poste"],
             entreprise |-> kept[i].v["entreprise"],
             description |-> kept[i].v["description"],
             competences |-> IF kept[i].v["competences"].t = "list"
                             THEN kept[i].v["competences"].v ELSE <<>>]]

RECURSIVE _validate_experiences(_)
_validate_experiences(experiences) ==
    IF experiences = <<>> THEN <<>>
    ELSE LET experience == Head(experiences)
             rest == _validate_experiences(Tail(experiences))
         IN  IF experience.t # "dict" THEN rest
             ELSE LET given == Get(experience.v, "competences", JList(<<>>))
                      competences == IF given.t = "list" THEN given.v ELSE <<>>
                      validated_experience ==
                        [periode |-> Get(experience.v, "periode", ""),
                         poste |-> Get(experience.v, "poste", ""),
                         entreprise |-> Get(experience.v, "entreprise", ""),
                         description |-> Get(experience.v, "description", ""),
                         competences |-> competences]
                  IN  IF EXPERIENCE_SCHEMA \subseteq DOMAIN validated_experience
                      THEN <<validated_experience>> \o rest
                      ELSE rest

NoFields == [formations |-> <<>>, experiences_professionnelles |-> <<>>]

\* parse_openai_response(response_content): content is a reply of kind text
\* (json.loads raises) or json (json.loads gives content.value)
parse_openai_response(content) ==
    IF content.kind # "json" THEN NoFields
    ELSE IF content.value.t # "dict" THEN NoFields
    ELSE LET extracted_data == content.value.v
             formations == JIter(Get(extracted_data, "formations", JList(<<>>)))
             experiences ==
                 JIter(Get(extracted_data, "experiences_professionnelles", JList(<<>>)))
         IN  IF ~formations.ok \/ ~experiences.ok THEN NoFields
             ELSE [formations |-> _validate_formations(formations.items),
                   experiences_professionnelles |->
                       _validate_experiences(experiences.items)]

\* _perform_openai_extraction raising when the reply is no JSON mapping
_perform_openai_extraction_rejects_unparseable(reply) ==
    CASE reply.kind = "raise" -> [ok |-> FALSE, error |-> reply.msg]
      [] reply.kind = "none" ->
           [ok |-> FALSE, error |-> "La réponse de l'API OpenAI est vide"]
      [] reply.kind # "json" \/ reply.value.t # "dict" ->
           [ok |-> FALSE, error |-> "Expecting value: line 1 column 1 (char 0)"]
      [] OTHER -> [ok |-> TRUE, fields |-> parse_openai_response(reply)]

\* _perform_openai_extraction: the parsed fields, or the fault it raises
_perform_openai_extraction(reply) ==
    CASE reply.kind = "raise" -> [ok |-> FALSE, error |-> reply.msg]
      [] reply.kind = "none" ->
           [ok |-> FALSE, error |-> "La réponse de l'API OpenAI est vide"]
      [] OTHER -> [ok |-> TRUE, fields |-> parse_openai_response(reply)]

\* _create_error_response giving back the input without the error section
_create_error_response_bare(error_message, original_data) == original_data

_create_error_response(error_message, original_data) ==
    original_data @@
    [openai_extracted |-> [error |-> error_message, status |-> "error"],
     step |-> "openai_extraction",
     success |-> FALSE]

\* KeyConfigured without the test of the key
KeyConfigured_accepts_any(key) == TRUE

\* not (not api_key or api_key == "votre_clé_api_openai_ici")
KeyConfigured(key) == key # "" /\ key # "votre_clé_api_openai_ici"

\* The stage openai_extraction(data), run at time t with the environment's
\* key; reply is what the service answers if it is called.
openai_extraction(d, key, reply, t) ==
    IF ~Get(d, "pdf_available", FALSE) \/ Has(d, "extraction_error")
    THEN _create_error_response(ERROR_NO_PDF_DATA, d)
    ELSE LET extracted_data == Get(d, "extracted", EmptyDict)
             text_content == Get(extracted_data, "text_content", <<>>)
         IN  IF text_content = <<>>
             THEN _create_error_response(ERROR_NO_TEXT_CONTENT, d)
             ELSE IF ~KeyConfigured(key)
             THEN _create_error_response(ERROR_API_KEY_MISSING, d)
             ELSE LET got == _perform_openai_extraction(reply)
                  IN  IF ~got.ok
                      THEN _create_error_response(
                               "Erreur lors de l'extraction avec OpenAI: " \o got.error, d)
                      ELSE d @@
                           [openai_extracted |->
                               [formations |-> Get(got.fields, "formations", <<>>),
                                experiences_professionnelles |->
                                    Get(got.fields, "experiences_professionnelles", <<>>),
                                status |-> "success",
                                extraction_time |-> t],
                            step |-> "openai_extraction",
                            success |-> TRUE]

\* whether openai_extraction(d, key, ...) reaches the call of the service
CallsExtractionService(d, key) ==
    /\ Get(d, "pdf_available", FALSE)
    /\ ~Has(d, "extraction_error")
    /\ Get(Get(d, "extracted", EmptyDict), "text_content", <<>>) # <<>>
    /\ KeyConfigured(key)

-----------------------------------------------------------------------------
(* The reference catalog: the file at METIERS_FILE_PATH and its cache.      *)
(* The file is [exists, mtime, readable, content]; content names what it   *)
(* holds, and CsvRows gives the rows csv.DictReader reads from it.         *)

FileContents == {"v1", "v2", "nocode", "norows"}

NoFile == [exists |-> FALSE, mtime |-> 0, readable |-> FALSE, content |-> "norows"]

CsvRows(content) ==
    CASE content = "v1" ->
           << [code_rome |-> "M1203", libelle_rome |-> "Comptabilité"],
              [code_rome |-> "M1805", libelle_rome |-> "Études et développement informatique"] >>
      [] content = "v2" ->
           << [code_rome |-> "M1203", libelle_rome |-> "Comptabilité"],
              [code_rome |-> "D1106", libelle_rome |-> "Vente en alimentation"],
              [code_rome |-> "K2111", libelle_rome |-> "Formation professionnelle"] >>
      [] content = "nocode" ->
           << [code |-> "M1203", libelle_rome |-> "Comptabilité"] >>
      [] OTHER -> <<>>

\* the encoding the file's bytes are written in
FileEncoding(content) == IF content = "v2" THEN "cp1252" ELSE "utf-8"

\* open(..., encoding=encoding) and csv.DictReader on it: the rows, or a fault.
\* latin-1, iso-8859-1 and cp1252 decode the bytes of either encoding.
ReadCsv(file, encoding) ==
    IF ~file.readable THEN [ok |-> FALSE, rows |-> <<>>]
    ELSE IF encoding \in {"utf-8", "utf-8-sig"} /\ FileEncoding(file.content) # "utf-8"
    THEN [ok |-> FALSE, rows |-> <<>>]
    ELSE [ok |-> TRUE, rows |-> CsvRows(file.content)]

encodings == <<"utf-8", "utf-8-sig", "latin-1", "iso-8859-1", "cp1252">>

\* the loop over the encodings: the rows of the first one that reads cleanly
RECURSIVE TryEncodings(_, _)
TryEncodings(file, encs) ==
    IF encs = <<>> THEN <<>>
    ELSE LET got == ReadCsv(file, Head(encs))
         IN  IF got.ok THEN got.rows ELSE TryEncodings(file, Tail(encs))

RECURSIVE StandardMetiers(_)
StandardMetiers(rows) ==
    IF rows = <<>> THEN <<>>
    ELSE LET metier == Head(rows)
             rest == StandardMetiers(Tail(rows))
         IN  IF ~Has(metier, "code_rome") THEN rest
             ELSE << [id |-> metier["code_rome"],
                      code_rome |-> metier["code_rome"],
                      libelle |-> Get(metier, "libelle_rome", "None"),
                      definition |-> "",
                      appellations |-> <<>>] >> \o rest

load_metiers_reference(file) ==
    IF ~file.exists THEN <<>>
    ELSE LET metiers_data == TryEncodings(file, encodings)
         IN  IF metiers_data = <<>> THEN <<>>
             ELSE StandardMetiers(metiers_data)

\* FileMtime with a missing file counted as newer than any load
FileMtime_missing_is_newest(file) == IF file.exists THEN file.mtime ELSE MaxTime + 1

\* os.path.getmtime(METIERS_FILE_PATH), 0 on OSError
FileMtime(file) == IF file.exists THEN file.mtime ELSE 0

\* CacheValid without the test of the length: an empty cache can be valid
CacheValid_accepts_empty(cache, timestamp, current_time, file) ==
    /\ (current_time - timestamp) < CACHE_TTL
    /\ FileMtime(file) <= timestamp

\* CacheValid without the comparison of the file's mtime
CacheValid_ignores_mtime(cache, timestamp, current_time, file) ==
    /\ Len(cache) > 0
    /\ (current_time - timestamp) < CACHE_TTL

\* cache_valid: the cache is not empty, not expired, and the file is not
\* newer than it
CacheValid(cache, timestamp, current_time, file) ==
    /\ Len(cache) > 0
    /\ (current_time - timestamp) < CACHE_TTL
    /\ FileMtime(file) <= timestamp

\* get_metiers_reference without the cache: every call loads the file
get_metiers_reference_always_reloads(cache, timestamp, current_time, file) ==
    LET loaded == load_metiers_reference(file)
    IN  [result |-> loaded, cache |-> loaded, timestamp |-> current_time,
         reloaded |-> TRUE]

\* get_metiers_reference keeping the globals when the load gives nothing
get_metiers_reference_keeps_on_failure(cache, timestamp, current_time, file) ==
    IF CacheValid(cache, timestamp, current_time, file)
    THEN [result |-> cache, cache |-> cache, timestamp |-> timestamp,
          reloaded |-> FALSE]
    ELSE LET loaded == load_metiers_reference(file)
         IN  IF loaded = <<>>
             THEN [result |-> <<>>, cache |-> cache, timestamp |-> timestamp,
                   reloaded |-> TRUE]
             ELSE [result |-> loaded, cache |-> loaded, timestamp |-> current_time,
                   reloaded |-> TRUE]

\* get_metiers_reference() called at current_time with the globals
\* (cache, timestamp): the list returned and the globals it leaves.
get_metiers_reference(cache, timestamp, current_time, file) ==
    IF CacheValid(cache, timestamp, current_time, file)
    THEN [result |-> cache, cache |-> cache, timestamp |-> timestamp,
          reloaded |-> FALSE]
    ELSE LET loaded == load_metiers_reference(file)
         IN  [result |-> loaded, cache |-> loaded, timestamp |-> current_time,
              reloaded |-> TRUE]

\* the cases in which load_metiers_reference cannot read the file: it is
\* missing, or open() fails for every encoding
LoadFails(file) == ~file.exists \/ ~file.readable

\* What the caller of get_metiers_reference saw, kept for the properties:
\* seq flips at every call; time is when it was made; cached and cached_at
\* are the globals the call found; failed says that it reloaded and could
\* not read the file; loaded_mtime is the file's mtime at the last call that
\* loaded the file; modified says whether the file was written, replaced,
\* removed or protected since the call.
Observed(got, current_time, file, previous, cache, timestamp) ==
    [seq |-> 1 - previous.seq, time |-> current_time, result |-> got.result,
     reloaded |-> got.reloaded, failed |-> got.reloaded /\ LoadFails(file),
     cached |-> cache, cached_at |-> timestamp,
     loaded_mtime |-> IF got.reloaded THEN FileMtime(file) ELSE previous.loaded_mtime,
     modified |-> FALSE]

NoCall == [seq |-> 0, time |-> -1, result |-> <<>>, reloaded |-> FALSE,
           failed |-> FALSE, cached |-> <<>>, cached_at |-> 0,
           loaded_mtime |-> 0, modified |-> FALSE]

\* the locals of a thread that is not in get_metiers_reference
NoFrame == [at |-> "out", current_time |-> 0, file_mtime |-> 0, loaded |-> <<>>]

-----------------------------------------------------------------------------
(* The matching service and the stage openai_matching. *)

JNum(n) == [t |-> "num", v |-> n]   \* a score, in tenths

MATCH_FIELDS == {"id", "code_rome", "libelle", "score"}

\* float(x) faulting for every value
Float_rejects_numbers(j) == [ok |-> FALSE, v |-> 0]

\* float(x): the number, or a fault for what is no number
Float(j) == IF j.t = "num" THEN [ok |-> TRUE, v |-> j.v] ELSE [ok |-> FALSE, v |-> 0]

\* find_matching_metiers_openai without the test of the four fields: a
\* mapping is returned as the match, with the fields it has
find_matching_metiers_openai_takes_partial(poste, key, reply) ==
    IF poste = "" \/ key = "" \/ reply.kind # "json" THEN <<>>
    ELSE IF reply.value.t = "dict" THEN << reply.value.v >> ELSE <<>>

\* find_matching_metiers_openai(poste, ...) with top_n = 1; reply is what the
\* service answers if it is called.  Every fault of the call ends in [].
find_matching_metiers_openai(poste, key, reply) ==
    IF poste = "" THEN <<>>
    ELSE IF key = "" THEN <<>>
    ELSE IF reply.kind # "json" THEN <<>>
    ELSE LET result == reply.value
         IN  IF result.t = "dict" /\ MATCH_FIELDS \subseteq DOMAIN result.v
             THEN LET score == Float(result.v["score"])
                  IN  IF ~score.ok THEN <<>>
                      ELSE << [id |-> result.v["id"],
                               code_rome |-> result.v["code_rome"],
                               libelle |-> result.v["libelle"],
                               score |-> score.v] >>
             ELSE <<>>

\* MatchLoop without the test of poste: every experience gets an entry
MatchLoop_keeps_unnamed(experiences, i, key, replies) ==
    [j \in 1..(Len(experiences) - i + 1) |->
        LET poste == Get(experiences[j + i - 1], "poste", "")
        IN  [poste |-> poste,
             matches |-> find_matching_metiers_openai(poste, key, replies[j + i - 1])]]

\* the loop of openai_matching over the experiences, replies[i] answering
\* the call made for the i-th one
RECURSIVE MatchLoop(_, _, _, _)
MatchLoop(experiences, i, key, replies) ==
    IF i > Len(experiences) THEN <<>>
    ELSE LET experience == experiences[i]
             poste == Get(experience, "poste", "")
             rest == MatchLoop(experiences, i + 1, key, replies)
         IN  IF poste = "" THEN rest
             ELSE << [poste |-> poste,
                      matches |-> find_matching_metiers_openai(poste, key, replies[i])] >>
                  \o rest

ExperiencesOf(d) ==
    Get(Get(d, "openai_extracted", EmptyDict), "experiences_professionnelles", <<>>)

\* LoadsCatalog without the two tests that come before the loading
LoadsCatalog_always(d) == TRUE

\* whether openai_matching(d) reaches get_metiers_reference()
LoadsCatalog(d) ==
    /\ Get(d, "success", FALSE)
    /\ Has(d, "openai_extracted")
    /\ ExperiencesOf(d) # <<>>

\* MatchingResult without **data: the record has the stage's keys alone
MatchingResult_drops_input(d, section, ok) ==
    [openai_matching |-> section, step |-> "openai_matching", success |-> ok]

\* the record openai_matching returns: {"openai_matching": ..., "step": ...,
\* "success": ..., **data}, where the keys of data win
MatchingResult(d, section, ok) ==
    d @@ [openai_matching |-> section, step |-> "openai_matching", success |-> ok]

\* The stage openai_matching(data); metiers_reference is what
\* get_metiers_reference() returns if it is called.
openai_matching(d, key, replies, metiers_reference) ==
    IF ~Get(d, "success", FALSE) \/ ~Has(d, "openai_extracted")
    THEN MatchingResult(d,
            [error |-> "Aucune donnée extraite par OpenAI disponible",
             status |-> "error", metiers_matches |-> <<>>], FALSE)
    ELSE IF ExperiencesOf(d) = <<>>
    THEN MatchingResult(d,
            [error |-> "Aucune expérience professionnelle trouvée",
             status |-> "warning", metiers_matches |-> <<>>], TRUE)
    ELSE IF metiers_reference = <<>>
    THEN MatchingResult(d,
            [error |-> "Impossible de charger les métiers de référence",
             status |-> "error", metiers_matches |-> <<>>], FALSE)
    ELSE MatchingResult(d,
            [metiers_matches |-> MatchLoop(ExperiencesOf(d), 1, key, replies),
             status |-> "success"], TRUE)

-----------------------------------------------------------------------------
(* The stages transformation and chargement. *)

\* str.lower() on the words the documents hold
Lower(word) ==
    CASE word \in {"Comptable", "COMPTABLE"} -> "comptable"
      [] word = "Paris" -> "paris"
      [] word = "Acme" -> "acme"
      [] OTHER -> word

\* "fr" in s.lower()
ContainsFr(s) == s \in {"fr", "fr-FR", "FR", "French"}

RECURSIVE Occurrences(_, _)
Occurrences(w, words) ==
    IF words = <<>> THEN 0
    ELSE (IF Head(words) = w THEN 1 ELSE 0) + Occurrences(w, Tail(words))

\* the distinct words, in the order of their first occurrence
RECURSIVE FirstSeen(_, _)
FirstSeen(words, seen) ==
    IF words = <<>> THEN <<>>
    ELSE IF Head(words) \in seen THEN FirstSeen(Tail(words), seen)
    ELSE <<Head(words)>> \o FirstSeen(Tail(words), seen \cup {Head(words)})

\* InsertRanked that puts w before the words exactly as frequent
RECURSIVE InsertRanked_before_equals(_, _, _)
InsertRanked_before_equals(w, ranked, words) ==
    IF ranked = <<>> THEN <<w>>
    ELSE IF Occurrences(Head(ranked), words) > Occurrences(w, words)
    THEN <<Head(ranked)>> \o InsertRanked_before_equals(w, Tail(ranked), words)
    ELSE <<w>> \o ranked

\* inserts w into ranked (most frequent first) behind every word at least as frequent
RECURSIVE InsertRanked(_, _, _)
InsertRanked(w, ranked, words) ==
    IF ranked = <<>> THEN <<w>>
    ELSE IF Occurrences(Head(ranked), words) >= Occurrences(w, words)
    THEN <<Head(ranked)>> \o InsertRanked(w, Tail(ranked), words)
    ELSE <<w>> \o ranked

RECURSIVE Ranked(_, _)
Ranked(distinct, words) ==
    IF distinct = <<>> THEN <<>>
    ELSE InsertRanked(distinct[Len(distinct)],
                      Ranked(SubSeq(distinct, 1, Len(distinct) - 1), words), words)

\* Prefix that keeps the whole list
Prefix_keeps_all(s, n) == s

Prefix(s, n) == SubSeq(s, 1, IF Len(s) < n THEN Len(s) ELSE n)

RECURSIVE LowerAll(_)
LowerAll(words) ==
    IF words = <<>> THEN <<>> ELSE <<Lower(Head(words))>> \o LowerAll(Tail(words))

\* [word for word, _ in Counter(words).most_common(10)]
Keywords(text_content) ==
    IF Len(Split(text_content)) = 0 THEN <<>>
    ELSE LET words == LowerAll(SelectSeq(Split(text_content), LAMBDA w : Len(w) > 3))
         IN  Prefix(Ranked(FirstSeen(words, {}), words), 10)

\* transformation that takes metiers_matches from a section in error as well
transformation_forwards_errors(d, t) ==
    LET out == [transformed |->
                   [cv_data |-> [metiers_matches |->
                                    Get(Get(d, "openai_matching", EmptyDict),
                                        "metiers_matches", <<>>)],
                    transformation_time |-> t],
                step |-> "transformation", success |-> TRUE]
    IN  IF Get(d, "pdf_available", FALSE) /\ ~Has(d, "extraction_error")
        THEN out ELSE [transformed |-> d, step |-> "transformation"]

\* The stage transformation(data), run at time t.
transformation(d, t) ==
    LET extracted_data == Get(d, "extracted", EmptyDict)
        openai_data == Get(d, "openai_extracted", EmptyDict)
        openai_matching_data == Get(d, "openai_matching", EmptyDict)
    IN  IF Get(d, "pdf_available", FALSE)
        THEN IF Has(d, "extraction_error")
             THEN [transformed |->
                      [error |-> "Erreur lors de l'extraction: " \o d["extraction_error"],
                       status |-> "error"],
                   step |-> "transformation",
                   success |-> FALSE]
             ELSE LET text_content == Get(extracted_data, "text_content", <<>>)
                      cv_openai ==
                          IF DOMAIN openai_data # {} /\ Get(openai_data, "status", "") # "error"
                          THEN [formations |-> Get(openai_data, "formations", <<>>),
                                experiences_professionnelles |->
                                    Get(openai_data, "experiences_professionnelles", <<>>),
                                extracteur |-> "openai"]
                          ELSE EmptyDict
                      cv_data ==
                          IF /\ DOMAIN openai_matching_data # {}
                             /\ Get(openai_matching_data, "status", "") # "error"
                          THEN Put(cv_openai, "metiers_matches",
                                   Get(openai_matching_data, "metiers_matches", <<>>))
                          ELSE cv_openai
                  IN  [transformed |->
                          [original_filename |-> Get(extracted_data, "pdf_filename", "document.pdf"),
                           statistics |->
                              [word_count |-> Len(Split(text_content)),
                               character_count |-> SumLen(text_content),
                               page_count |-> Get(extracted_data, "num_pages", 0)],
                           content_analysis |->
                              [keywords |-> Keywords(text_content),
                               language |->
                                  IF ContainsFr(Get(Get(extracted_data, "metadata", EmptyDict),
                                                    "language", ""))
                                  THEN "fr" ELSE "en"],
                           cv_data |-> cv_data,
                           metadata |-> Get(extracted_data, "metadata", EmptyDict),
                           transformation_time |-> t],
                       step |-> "transformation",
                       success |-> TRUE]
        ELSE [transformed |-> d, step |-> "transformation"]

\* chargement whose load_status depends on the time of the call
chargement_counts_time(d, t, uuid) ==
    [loaded |-> [original_data |-> Get(d, "transformed", EmptyDict),
                 load_status |-> IF t > 1 THEN "late" ELSE "success",
                 load_time |-> t,
                 storage_reference |-> "pdf_analysis_" \o uuid],
     step |-> "load_complete",
     success |-> TRUE]

\* The stage chargement(data), run at time t; uuid is what uuid.uuid4() gives.
chargement(d, t, uuid) ==
    LET transformed_data == Get(d, "transformed", EmptyDict)
    IN  IF Get(d, "success", TRUE)
        THEN LET loaded ==
                   [original_data |-> transformed_data,
                    load_status |-> "success",
                    load_time |-> t,
                    storage_reference |-> "pdf_analysis_" \o uuid]
                 content_analysis == Get(transformed_data, "content_analysis", EmptyDict)
                 statistics == Get(transformed_data, "statistics", EmptyDict)
                 summarized ==
                   Put(loaded, "analysis_summary",
                       [filename |-> Get(transformed_data, "original_filename", "document.pdf"),
                        word_count |-> Get(statistics, "word_count", 0),
                        page_count |-> Get(statistics, "page_count", 0),
                        top_keywords |-> Prefix(Get(content_analysis, "keywords", <<>>), 5),
                        language |-> Get(content_analysis, "language", "unknown")])
                 cv_data == Get(transformed_data, "cv_data", EmptyDict)
             IN  [loaded |->
                     IF ~Has(transformed_data, "statistics") THEN loaded
                     ELSE IF Has(cv_data, "metiers_matches")
                     THEN Put(summarized, "metiers_matches", cv_data["metiers_matches"])
                     ELSE summarized,
                  step |-> "load_complete",
                  success |-> TRUE]
        ELSE [loaded |->
                 [error |-> "Échec de la transformation des données",
                  original_error |-> Get(transformed_data, "error", "Erreur inconnue"),
                  load_status |-> "failed",
                  load_time |-> t],
              step |-> "load_complete",
              success |-> FALSE]

-----------------------------------------------------------------------------
(* The requests and what the services answer. *)

WorkflowIds == {"w1", "w2"}     \* the values uuid.uuid4() gives the requests

Stages == <<"extraction", "openai_extraction", "openai_matching",
            "transformation", "chargement">>

StageNo(s) == CHOOSE i \in 1..Len(Stages) : Stages[i] = s

\* NextStatus with the matching stage left out of the sequence
NextStatus_skips_matching(s) ==
    CASE s = "openai_extraction" -> "transformation"
      [] StageNo(s) < Len(Stages) -> Stages[StageNo(s) + 1]
      [] OTHER -> "completed"

\* the status workflow_process writes after the one for stage s has returned
NextStatus(s) == IF StageNo(s) < Len(Stages) THEN Stages[StageNo(s) + 1] ELSE "completed"

NoneValue == [none |-> TRUE]    \* Python's None, for an absent argument

\* prepare_pdf_input_data(pdf_content, filename, content_type, additional_data);
\* additional_data is None, or a text that json.loads reads as a dict
\* (kind json), or a text it refuses (kind text)
prepare_pdf_input_data(pdf_content, filename, content_type, additional_data) ==
    LET base == [pdf_filename |-> filename,
                 pdf_content_b64 |-> b64encode(pdf_content),
                 content_type |-> content_type]
    IN  CASE additional_data = NoneValue -> base
          [] Has(additional_data, "kind") /\ additional_data.kind = "json" ->
                additional_data.value @@ base
          [] OTHER -> Put(base, "additional_data", additional_data.value)

Uploads ==
    { [filename |-> "cv.pdf", content_type |-> "application/pdf", content |-> "cv2p"],
      [filename |-> "scan.pdf", content_type |-> "application/pdf", content |-> "scan1p"],
      [filename |-> "blank.pdf", content_type |-> "application/pdf", content |-> "blank0p"],
      [filename |-> "notes.txt", content_type |-> "text/plain", content |-> "garbage"],
      [filename |-> "", content_type |-> "application/pdf", content |-> "cv2p"],
      [filename |-> "cv.pdf", content_type |-> "", content |-> "cv2p"] }

\* the additional_data of a request: none, a JSON object with a key of its
\* own, or a JSON object with the three keys of the document
AdditionalData ==
    { NoneValue,
      [kind |-> "json", value |-> [sentinel |-> "kept"]],
      [kind |-> "json", value |-> [pdf_filename |-> "other.txt",
                                   pdf_content_b64 |-> b64encode("garbage"),
                                   content_type |-> "text/plain"]] }

\* The requests of the model: the first one is any upload, sent to either
\* endpoint or made by another caller; the second one, concurrent with it, is
\* a background run of a file that is no PDF.
FirstId == "w1"

UploadsOf(id) ==
    IF id = FirstId THEN Uploads ELSE {u \in Uploads : u.content = "garbage"}

AdditionalDataOf(id) == IF id = FirstId THEN AdditionalData ELSE {NoneValue}

\* what a caller other than the endpoints passes as input_data
DirectInputs == { NoneValue, [sentinel |-> "kept"] }

Comptable ==
    [periode |-> "2020-2022", poste |-> "Comptable", entreprise |-> "Acme",
     description |-> "Tenue des comptes", competences |-> JList(<<"Excel">>)]

\* the reply that holds the one experience Comptable
OneExperience ==
    [kind |-> "json", value |->
        JDict([formations |-> JList(<<>>),
               experiences_professionnelles |-> JList(<< JDict(Comptable) >>)])]

ExtractionReplies ==
    { [kind |-> "raise", msg |-> "Connection error."],
      OneExperience,
      [kind |-> "none"],
      [kind |-> "text"],
      [kind |-> "json", value |-> JList(<<>>)],
      [kind |-> "json", value |-> JDict([formations |-> JNull])],
      [kind |-> "json", value |-> JDict([formations |-> JList(<<>>),
                                       experiences_professionnelles |-> JList(<<>>)])],
      [kind |-> "json", value |->
          JDict([formations |->
                    JList(<< JDict([periode |-> "2015-2018", diplome |-> "BTS"]) >>),
                 experiences_professionnelles |->
                    JList(<< JDict([periode |-> "2019", entreprise |-> "Acme",
                                    competences |-> JStr("Excel")]),
                             JStr("Comptable"),
                             JDict(Comptable) >>)])] }

MatchReplies ==
    { [kind |-> "raise"],
      [kind |-> "none"],
      [kind |-> "json", value |-> JDict([id |-> "M1203", code_rome |-> "M1203"])],
      [kind |-> "json", value |->
          JDict([id |-> "M1203", code_rome |-> "M1203",
                 libelle |-> "Comptabilité", score |-> JNum(9)])] }

Uuids == {"3f2a", "9c1d"}       \* the values uuid.uuid4() gives chargement

\* the exceptions a stage call raises into workflow_process
StageFaults == {"Task run crashed"}

-----------------------------------------------------------------------------
(* The state machine. *)

At(op, stage) == [op |-> op, stage |-> stage]

Idle == At("idle", "-")

NoOutcome == [kind |-> "none"]

NoResponse == [endpoint |-> "-"]

Init ==
    /\ active_workflows = EmptyDict
    /\ pc = [id \in WorkflowIds |-> Idle]
    /\ mode = [id \in WorkflowIds |-> "-"]
    /\ input_data = [id \in WorkflowIds |-> NoneValue]
    /\ data = [id \in WorkflowIds |-> EmptyDict]
    /\ calls = [id \in WorkflowIds |-> <<>>]
    /\ fault = [id \in WorkflowIds |-> ""]
    /\ outcome = [id \in WorkflowIds |-> NoOutcome]
    /\ response = NoResponse
    /\ now = 1
    /\ metiers_file \in
          { NoFile, [exists |-> TRUE, mtime |-> 1, readable |-> TRUE, content |-> "v1"] }
    /\ api_key \in {"", "sk-test"}
    /\ _metiers_cache = <<>>
    /\ _metiers_cache_timestamp = 0
    /\ ref_call = NoCall
    /\ frame = [id \in WorkflowIds |-> NoFrame]

\* The registration both endpoints make before they start the workflow.
Registered(workflow_name, filename, content_type, t) ==
    [workflow_name |-> workflow_name,
     start_time |-> t,
     status |-> "initializing",
     input_data |-> [pdf_filename |-> filename, content_type |-> content_type]]

\* Submit without the registration of the run
Submit_without_registration(id, upload, additional_data, how) ==
    /\ pc[id] = Idle
    /\ mode' = [mode EXCEPT ![id] = how]
    /\ input_data' = [input_data EXCEPT ![id] =
           prepare_pdf_input_data(upload.content, upload.filename,
                                  upload.content_type, additional_data)]
    /\ pc' = [pc EXCEPT ![id] = At("queued", "-")]
    /\ response' = NoResponse
    /\ UNCHANGED <<active_workflows, outcome, data, calls, fault, envVars, cacheVars>>

\* Submit without the check of the filename and of the content type
Submit_accepts_nameless(id, upload, additional_data, how) ==
    /\ pc[id] = Idle
    /\ mode' = [mode EXCEPT ![id] = how]
    /\ input_data' = [input_data EXCEPT ![id] =
           prepare_pdf_input_data(upload.content, upload.filename,
                                  upload.content_type, additional_data)]
    /\ active_workflows' =
           Put(active_workflows, id,
               Registered("default_workflow", upload.filename, upload.content_type, now))
    /\ pc' = [pc EXCEPT ![id] = At("queued", "-")]
    /\ response' = NoResponse
    /\ UNCHANGED <<outcome, data, calls, fault, envVars, cacheVars>>

\* What run_workflow and run_workflow_sync do up to the start of the workflow:
\* the upload is refused with a 400, or the run is registered.
Submit(id, upload, additional_data, how) ==
    /\ pc[id] = Idle
    /\ mode' = [mode EXCEPT ![id] = how]
    /\ IF upload.filename = "" \/ upload.content_type = ""
       THEN /\ pc' = [pc EXCEPT ![id] = At("rejected", "-")]
            /\ outcome' = [outcome EXCEPT ![id] = [kind |-> "http", code |-> 400]]
            /\ UNCHANGED <<active_workflows, input_data>>
       ELSE /\ input_data' = [input_data EXCEPT ![id] =
                   prepare_pdf_input_data(upload.content, upload.filename,
                                          upload.content_type, additional_data)]
            /\ active_workflows' =
                   Put(active_workflows, id,
                       Registered("default_workflow", upload.filename,
                                  upload.content_type, now))
            /\ pc' = [pc EXCEPT ![id] = At("queued", "-")]
            /\ UNCHANGED outcome
    /\ response' = NoResponse
    /\ UNCHANGED <<data, calls, fault, envVars, cacheVars>>

\* POST /workflow/run: the workflow is left to a background task
run_workflow(id) ==
    \E upload \in UploadsOf(id), additional_data \in AdditionalDataOf(id) :
        Submit(id, upload, additional_data, "background")

\* POST /workflow/run/sync: the workflow runs in the request
run_workflow_sync(id) ==
    \E upload \in UploadsOf(id), additional_data \in AdditionalDataOf(id) :
        Submit(id, upload, additional_data, "sync")

\* Another caller of workflow_process(workflow_id, input_data): it has
\* registered the run first, or it has not.
direct_call(id) ==
    /\ pc[id] = Idle
    /\ \E input \in DirectInputs, registers \in BOOLEAN :
        /\ input_data' = [input_data EXCEPT ![id] = input]
        /\ active_workflows' =
              IF registers
              THEN Put(active_workflows, id,
                       [workflow_name |-> "default_workflow", start_time |-> now,
                        status |-> "initializing"])
              ELSE active_workflows
    /\ mode' = [mode EXCEPT ![id] = "direct"]
    /\ pc' = [pc EXCEPT ![id] = At("queued", "-")]
    /\ response' = NoResponse
    /\ UNCHANGED <<data, calls, fault, outcome, envVars, cacheVars>>

\* workflow_process is entered: lines 58-59
enter_workflow(id) ==
    /\ pc[id] = At("queued", "-")
    /\ data' = [data EXCEPT ![id] =
          IF input_data[id] = NoneValue THEN [initial |-> "data"] ELSE input_data[id]]
    /\ pc' = [pc EXCEPT ![id] = At("set", Stages[1])]
    /\ response' = NoResponse
    /\ UNCHANGED <<active_workflows, mode, input_data, calls, fault, outcome,
                   envVars, cacheVars>>

\* set_status with active_workflows.setdefault(workflow_id, {}) in place of
\* the lookup: an id that is not registered gets an entry
set_status_creates_entry(id) ==
    /\ pc[id].op = "set"
    /\ LET s == pc[id].stage
       IN  /\ active_workflows' =
                 IF id \in DOMAIN active_workflows
                 THEN [active_workflows EXCEPT ![id] = Put(@, "status", s)]
                 ELSE Put(active_workflows, id, [status |-> s])
           /\ IF s = "completed"
              THEN /\ pc' = [pc EXCEPT ![id] = At("done", "-")]
                   /\ outcome' = [outcome EXCEPT ![id] =
                          [kind |-> "returned", value |-> data[id]]]
              ELSE /\ pc' = [pc EXCEPT ![id] = At("call", s)]
                   /\ UNCHANGED outcome
    /\ response' = NoResponse
    /\ UNCHANGED <<mode, input_data, data, calls, fault, envVars, cacheVars>>

\* set_status whose last write looks into the record: "failed" when the
\* result says success false
set_status_judges_record(id) ==
    /\ pc[id].op = "set"
    /\ LET s == pc[id].stage
       IN  IF id \notin DOMAIN active_workflows
           THEN /\ fault' = [fault EXCEPT ![id] = "KeyError"]
                /\ pc' = [pc EXCEPT ![id] = At("except_status", s)]
                /\ UNCHANGED <<active_workflows, outcome>>
           ELSE /\ active_workflows' =
                      [active_workflows EXCEPT ![id] =
                          Put(@, "status",
                              IF s = "completed" /\ ~Get(data[id], "success", TRUE)
                              THEN "failed" ELSE s)]
                /\ IF s = "completed"
                   THEN /\ pc' = [pc EXCEPT ![id] = At("done", "-")]
                        /\ outcome' = [outcome EXCEPT ![id] =
                               [kind |-> "returned", value |-> data[id]]]
                   ELSE /\ pc' = [pc EXCEPT ![id] = At("call", s)]
                        /\ UNCHANGED outcome
                /\ UNCHANGED fault
    /\ response' = NoResponse
    /\ UNCHANGED <<mode, input_data, data, calls, envVars, cacheVars>>

\* set_status returning the result without the write of "completed"
set_status_forgets_completed(id) ==
    /\ pc[id].op = "set"
    /\ LET s == pc[id].stage
       IN  IF id \notin DOMAIN active_workflows
           THEN /\ fault' = [fault EXCEPT ![id] = "KeyError"]
                /\ pc' = [pc EXCEPT ![id] = At("except_status", s)]
                /\ UNCHANGED <<active_workflows, outcome>>
           ELSE /\ IF s = "completed"
                   THEN /\ pc' = [pc EXCEPT ![id] = At("done", "-")]
                        /\ outcome' = [outcome EXCEPT ![id] =
                               [kind |-> "returned", value |-> data[id]]]
                        /\ UNCHANGED active_workflows
                   ELSE /\ active_workflows' =
                              [active_workflows EXCEPT ![id] = Put(@, "status", s)]
                        /\ pc' = [pc EXCEPT ![id] = At("call", s)]
                        /\ UNCHANGED outcome
                /\ UNCHANGED fault
    /\ response' = NoResponse
    /\ UNCHANGED <<mode, input_data, data, calls, envVars, cacheVars>>

\* active_workflows[workflow_id]["status"] = s, a KeyError for an id that is
\* not registered; after the last one, return result
set_status(id) ==
    /\ pc[id].op = "set"
    /\ LET s == pc[id].stage
       IN  IF id \notin DOMAIN active_workflows
           THEN /\ fault' = [fault EXCEPT ![id] = "KeyError"]
                /\ pc' = [pc EXCEPT ![id] = At("except_status", s)]
                /\ UNCHANGED <<active_workflows, outcome>>
           ELSE /\ active_workflows' =
                      [active_workflows EXCEPT ![id] = Put(@, "status", s)]
                /\ IF s = "completed"
                   THEN /\ pc' = [pc EXCEPT ![id] = At("done", "-")]
                        /\ outcome' = [outcome EXCEPT ![id] =
                               [kind |-> "returned", value |-> data[id]]]
                   ELSE /\ pc' = [pc EXCEPT ![id] = At("call", s)]
                        /\ UNCHANGED outcome
                /\ UNCHANGED fault
    /\ response' = NoResponse
    /\ UNCHANGED <<mode, input_data, data, calls, envVars, cacheVars>>

\* the status the registry shows for id, "-" if it has no entry for it
StatusShown(id) ==
    IF id \in DOMAIN active_workflows THEN active_workflows[id]["status"] ELSE "-"

\* what the record of a call holds as the service's answer when the stage
\* asked nothing of a service
Unasked == [kind |-> "unasked"]

\* Returned with the next stage given the record the previous one was given
Returned_passes_old_record(id, out) ==
    /\ calls' = [calls EXCEPT ![id] =
          Append(@, [stage |-> pc[id].stage, input |-> data[id],
                     status |-> StatusShown(id),
                     returned |-> TRUE, output |-> out, raised |-> "",
                     reply |-> Unasked])]
    /\ pc' = [pc EXCEPT ![id] = At("set", NextStatus(pc[id].stage))]
    /\ response' = NoResponse
    /\ UNCHANGED <<active_workflows, mode, input_data, data, fault, outcome, envVars>>

\* the stage called at pc[id] has returned out, the service it asked having
\* answered reply
ReturnedWith(id, out, reply) ==
    /\ data' = [data EXCEPT ![id] = out]
    /\ calls' = [calls EXCEPT ![id] =
          Append(@, [stage |-> pc[id].stage, input |-> data[id],
                     status |-> StatusShown(id),
                     returned |-> TRUE, output |-> out, raised |-> "",
                     reply |-> reply])]
    /\ pc' = [pc EXCEPT ![id] = At("set", NextStatus(pc[id].stage))]
    /\ response' = NoResponse
    /\ UNCHANGED <<active_workflows, mode, input_data, fault, outcome, envVars>>

\* the stage called at pc[id] has returned out
Returned(id, out) == ReturnedWith(id, out, Unasked)

call_extraction(id) ==
    /\ pc[id] = At("call", "extraction")
    /\ Returned(id, extraction(data[id], now))
    /\ UNCHANGED cacheVars

call_openai_extraction(id) ==
    /\ pc[id] = At("call", "openai_extraction")
    /\ \E reply \in IF CallsExtractionService(data[id], api_key)
                    THEN ExtractionReplies ELSE {Unasked} :
          ReturnedWith(id, openai_extraction(data[id], api_key, reply, now), reply)
    /\ UNCHANGED cacheVars

call_openai_matching(id) ==
    /\ pc[id] = At("call", "openai_matching")
    /\ IF LoadsCatalog(data[id])
       THEN LET got == get_metiers_reference(_metiers_cache, _metiers_cache_timestamp,
                                             now, metiers_file)
            IN  /\ _metiers_cache' = got.cache
                /\ _metiers_cache_timestamp' = got.timestamp
                /\ ref_call' = Observed(got, now, metiers_file, ref_call,
                                         _metiers_cache, _metiers_cache_timestamp)
                /\ UNCHANGED frame
                /\ \E replies \in [1..Len(ExperiencesOf(data[id])) ->
                                      IF got.result = <<>> THEN {[kind |-> "raise"]}
                                      ELSE MatchReplies] :
                      Returned(id, openai_matching(data[id], api_key, replies, got.result))
       ELSE /\ Returned(id, openai_matching(data[id], api_key, <<>>, <<>>))
            /\ UNCHANGED cacheVars

call_transformation(id) ==
    /\ pc[id] = At("call", "transformation")
    /\ Returned(id, transformation(data[id], now))
    /\ UNCHANGED cacheVars

call_chargement(id) ==
    /\ pc[id] = At("call", "chargement")
    /\ \E uuid \in Uuids : Returned(id, chargement(data[id], now, uuid))
    /\ UNCHANGED cacheVars

\* the stage called at pc[id] raises instead of returning
stage_raises(id) ==
    /\ pc[id].op = "call"
    /\ \E e \in StageFaults :
          /\ fault' = [fault EXCEPT ![id] = e]
          /\ calls' = [calls EXCEPT ![id] =
                Append(@, [stage |-> pc[id].stage, input |-> data[id],
                           status |-> StatusShown(id),
                           returned |-> FALSE, output |-> EmptyDict, raised |-> e])]
    /\ pc' = [pc EXCEPT ![id] = At("except_status", pc[id].stage)]
    /\ response' = NoResponse
    /\ UNCHANGED <<active_workflows, mode, input_data, data, outcome, envVars, cacheVars>>

\* except_status without the write of the status
except_status_keeps_status(id) ==
    /\ pc[id].op = "except_status"
    /\ IF id \notin DOMAIN active_workflows
       THEN /\ pc' = [pc EXCEPT ![id] = At("done", "-")]
            /\ outcome' = [outcome EXCEPT ![id] = [kind |-> "raised", error |-> "KeyError"]]
       ELSE /\ pc' = [pc EXCEPT ![id] = At("except_error", pc[id].stage)]
            /\ UNCHANGED outcome
    /\ response' = NoResponse
    /\ UNCHANGED <<active_workflows, mode, input_data, data, calls, fault, envVars, cacheVars>>

\* except Exception as e: active_workflows[workflow_id]["status"] = "failed"
except_status(id) ==
    /\ pc[id].op = "except_status"
    /\ IF id \notin DOMAIN active_workflows
       THEN /\ pc' = [pc EXCEPT ![id] = At("done", "-")]
            /\ outcome' = [outcome EXCEPT ![id] = [kind |-> "raised", error |-> "KeyError"]]
            /\ UNCHANGED active_workflows
       ELSE /\ active_workflows' =
                  [active_workflows EXCEPT ![id] = Put(@, "status", "failed")]
            /\ pc' = [pc EXCEPT ![id] = At("except_error", pc[id].stage)]
            /\ UNCHANGED outcome
    /\ response' = NoResponse
    /\ UNCHANGED <<mode, input_data, data, calls, fault, envVars, cacheVars>>

\* except_error without the raise: the fault is swallowed and None returned
except_error_swallows(id) ==
    /\ pc[id].op = "except_error"
    /\ active_workflows' = [active_workflows EXCEPT ![id] = Put(@, "error", fault[id])]
    /\ outcome' = [outcome EXCEPT ![id] = [kind |-> "returned", value |-> NoneValue]]
    /\ pc' = [pc EXCEPT ![id] = At("done", "-")]
    /\ response' = NoResponse
    /\ UNCHANGED <<mode, input_data, data, calls, fault, envVars, cacheVars>>

\* except_error writing the error into every entry of the registry
except_error_marks_all(id) ==
    /\ pc[id].op = "except_error"
    /\ active_workflows' =
          [w \in DOMAIN active_workflows |-> Put(active_workflows[w], "error", fault[id])]
    /\ outcome' = [outcome EXCEPT ![id] = [kind |-> "raised", error |-> fault[id]]]
    /\ pc' = [pc EXCEPT ![id] = At("done", "-")]
    /\ response' = NoResponse
    /\ UNCHANGED <<mode, input_data, data, calls, fault, envVars, cacheVars>>

\* active_workflows[workflow_id]["error"] = str(e); raise
except_error(id) ==
    /\ pc[id].op = "except_error"
    /\ active_workflows' = [active_workflows EXCEPT ![id] = Put(@, "error", fault[id])]
    /\ outcome' = [outcome EXCEPT ![id] = [kind |-> "raised", error |-> fault[id]]]
    /\ pc' = [pc EXCEPT ![id] = At("done", "-")]
    /\ response' = NoResponse
    /\ UNCHANGED <<mode, input_data, data, calls, fault, envVars, cacheVars>>

\* run_workflow_sync once workflow_process has ended: the record it returned
\* with workflow_info set in it, or the description of the fault it raised
sync_response(id) ==
    /\ mode[id] = "sync"
    /\ pc[id] = At("done", "-")
    /\ outcome' = [outcome EXCEPT ![id] =
          IF outcome[id].kind = "returned"
          THEN [kind |-> "http", code |-> 200,
                body |-> Put(outcome[id].value, "workflow_info",
                             [workflow_id |-> id,
                              workflow_name |-> active_workflows[id]["workflow_name"],
                              execution_time |-> now - active_workflows[id]["start_time"],
                              status |-> active_workflows[id]["status"]])]
          ELSE [kind |-> "http", code |-> 200,
                body |-> [error |-> outcome[id].error,
                          workflow_id |-> id,
                          workflow_name |-> active_workflows[id]["workflow_name"],
                          status |-> IF id \in DOMAIN active_workflows
                                     THEN active_workflows[id]["status"]
                                     ELSE "failed"]]]
    /\ pc' = [pc EXCEPT ![id] = At("responded", "-")]
    /\ response' = NoResponse
    /\ UNCHANGED <<active_workflows, mode, input_data, data, calls, fault,
                   envVars, cacheVars>>

\* workflow_process, one step of it
workflow_process(id) ==
    \/ enter_workflow(id)
    \/ set_status(id)
    \/ call_extraction(id)
    \/ call_openai_extraction(id)
    \/ call_openai_matching(id)
    \/ call_transformation(id)
    \/ call_chargement(id)
    \/ stage_raises(id)
    \/ except_status(id)
    \/ except_error(id)

Next ==
    \/ \E id \in WorkflowIds : run_workflow(id)
    \/ run_workflow_sync(FirstId)
    \/ sync_response(FirstId)
    \/ direct_call(FirstId)
    \/ \E id \in WorkflowIds : workflow_process(id)

Spec == Init /\ [][Next]_vars

\* The runs when every started workflow_process goes on: a stage call and a
\* service call return or raise, and the thread of a background task, like
\* the request of the synchronous endpoint, is scheduled again.
SpecLive ==
    /\ Init /\ [][Next]_vars
    /\ \A id \in WorkflowIds : WF_vars(stage_raises(id) \/ workflow_process(id))

-----------------------------------------------------------------------------
(* The runs and the GET endpoints that read the registry. *)

\* the ids a status is asked for: those of the runs, and one never given out
QueryIds == WorkflowIds \cup {"w9"}

\* get_workflow_status without the 404: an unknown id is answered as a run
\* that has not started
get_workflow_status_unknown_ok(workflow_id) ==
    /\ response' =
          [endpoint |-> "status", workflow_id |-> workflow_id, code |-> 200,
           body |-> [workflow_id |-> workflow_id,
                     status |-> IF workflow_id \in DOMAIN active_workflows
                                THEN active_workflows[workflow_id]["status"]
                                ELSE "initializing"]]
    /\ UNCHANGED <<active_workflows, pc, mode, input_data, data, calls, fault, outcome,
                   envVars, cacheVars>>

\* GET /workflow/status/{workflow_id}
get_workflow_status(workflow_id) ==
    /\ response' =
          IF workflow_id \notin DOMAIN active_workflows
          THEN [endpoint |-> "status", workflow_id |-> workflow_id, code |-> 404,
                detail |-> "Workflow non trouvé: " \o workflow_id]
          ELSE [endpoint |-> "status", workflow_id |-> workflow_id, code |-> 200,
                body |-> [workflow_id |-> workflow_id,
                          status |-> active_workflows[workflow_id]["status"],
                          workflow_name |-> active_workflows[workflow_id]["workflow_name"],
                          start_time |-> active_workflows[workflow_id]["start_time"]]]
    /\ UNCHANGED <<active_workflows, pc, mode, input_data, data, calls, fault, outcome,
                   envVars, cacheVars>>

\* WorkflowInfo(workflow_id=wf_id, ...) for one entry of the registry
WorkflowInfo(wf_id, info) ==
    [workflow_id |-> wf_id,
     workflow_name |-> info["workflow_name"],
     start_time |-> info["start_time"],
     status |-> info["status"]]

\* get_active_workflows that leaves the failed runs out of the list
get_active_workflows_hides_failed ==
    /\ response' =
          [endpoint |-> "active", code |-> 200,
           body |-> { WorkflowInfo(wf_id, active_workflows[wf_id]) :
                        wf_id \in {w \in DOMAIN active_workflows :
                                      active_workflows[w]["status"] # "failed"} }]
    /\ UNCHANGED <<active_workflows, pc, mode, input_data, data, calls, fault, outcome,
                   envVars, cacheVars>>

\* GET /workflow/active: one WorkflowInfo per entry of the registry (the
\* list, without its order)
get_active_workflows ==
    /\ response' =
          [endpoint |-> "active", code |-> 200,
           body |-> { WorkflowInfo(wf_id, active_workflows[wf_id]) :
                        wf_id \in DOMAIN active_workflows }]
    /\ UNCHANGED <<active_workflows, pc, mode, input_data, data, calls, fault, outcome,
                   envVars, cacheVars>>

NextRegistry ==
    \/ Next
    \/ \E workflow_id \in QueryIds : get_workflow_status(workflow_id)
    \/ get_active_workflows

SpecRegistry == Init /\ [][NextRegistry]_vars

-----------------------------------------------------------------------------
(* The reference catalog alone: the clock advances, the file is written,    *)
(* replaced, removed and protected, and get_metiers_reference() is called,  *)
(* one call after the other, as openai_matching calls it.                   *)

tick ==
    /\ now < MaxTime
    /\ now' = now + 1
    /\ UNCHANGED <<active_workflows, runVars, metiers_file, api_key, cacheVars>>

FileChanged(file) ==
    /\ metiers_file' = file
    /\ ref_call' = [ref_call EXCEPT !.modified = TRUE]
    /\ UNCHANGED <<active_workflows, runVars, now, api_key,
                   _metiers_cache, _metiers_cache_timestamp, frame>>

\* The file is written or replaced: it gets the time of the write as its
\* mtime, or an older one it is given (os.utime, a copy that keeps the times).
write_file ==
    \E content \in FileContents, mtime \in 1..now :
        FileChanged([exists |-> TRUE, mtime |-> mtime, readable |-> TRUE,
                     content |-> content])

remove_file ==
    /\ metiers_file.exists
    /\ FileChanged(NoFile)

\* chmod: the file can no longer be opened, or can again; its mtime stays
chmod_file ==
    /\ metiers_file.exists
    /\ FileChanged([metiers_file EXCEPT !.readable = ~@])

call_get_metiers_reference ==
    LET got == get_metiers_reference(_metiers_cache, _metiers_cache_timestamp,
                                     now, metiers_file)
    IN  /\ _metiers_cache' = got.cache
        /\ _metiers_cache_timestamp' = got.timestamp
        /\ ref_call' = Observed(got, now, metiers_file, ref_call,
                                         _metiers_cache, _metiers_cache_timestamp)
        /\ UNCHANGED <<active_workflows, runVars, envVars, frame>>

NextCache ==
    \/ tick
    \/ write_file
    \/ remove_file
    \/ chmod_file
    \/ call_get_metiers_reference

SpecCache == Init /\ [][NextCache]_vars

-----------------------------------------------------------------------------
(* get_metiers_reference() called by two threads at once, as the background *)
(* tasks of two runs do: each statement of the function is a step, the     *)
(* globals are shared, and the file is modified in between, each            *)
(* modification at a later time than the one before.                       *)

\* the locals of thread id and where it stands are changed, nothing else of
\* the threads
InFrame(id, at, locals) ==
    /\ frame' = [frame EXCEPT ![id] = locals @@ [at |-> at] @@ frame[id]]
    /\ UNCHANGED <<active_workflows, runVars, envVars, ref_call>>

\* current_time = time.time()
read_current_time(id) ==
    /\ frame[id].at = "out"
    /\ InFrame(id, "mtime", [current_time |-> now])
    /\ UNCHANGED <<_metiers_cache, _metiers_cache_timestamp>>

\* file_mtime = os.path.getmtime(METIERS_FILE_PATH), 0 on OSError
read_file_mtime(id) ==
    /\ frame[id].at = "mtime"
    /\ InFrame(id, "check", [file_mtime |-> FileMtime(metiers_file)])
    /\ UNCHANGED <<_metiers_cache, _metiers_cache_timestamp>>

\* cache_valid as the thread computes it from its locals and the globals
JudgedValid(id) ==
    /\ Len(_metiers_cache) > 0
    /\ (frame[id].current_time - _metiers_cache_timestamp) < CACHE_TTL
    /\ frame[id].file_mtime <= _metiers_cache_timestamp

\* if cache_valid: return _metiers_cache
check_cache_valid(id) ==
    /\ frame[id].at = "check"
    /\ InFrame(id, IF JudgedValid(id) THEN "out" ELSE "load", [k \in {} |-> 0])
    /\ UNCHANGED <<_metiers_cache, _metiers_cache_timestamp>>

\* load_metiers_reference(), the right-hand side of the assignment
load_file(id) ==
    /\ frame[id].at = "load"
    /\ InFrame(id, "store_cache", [loaded |-> load_metiers_reference(metiers_file)])
    /\ UNCHANGED <<_metiers_cache, _metiers_cache_timestamp>>

\* _metiers_cache = ...
store_cache(id) ==
    /\ frame[id].at = "store_cache"
    /\ _metiers_cache' = frame[id].loaded
    /\ InFrame(id, "store_timestamp", [k \in {} |-> 0])
    /\ UNCHANGED _metiers_cache_timestamp

\* _metiers_cache_timestamp = current_time; return _metiers_cache
store_timestamp(id) ==
    /\ frame[id].at = "store_timestamp"
    /\ _metiers_cache_timestamp' = frame[id].current_time
    /\ InFrame(id, "out", [k \in {} |-> 0])
    /\ UNCHANGED _metiers_cache

\* the file is given another content, at a time later than every time read
\* so far
modify_file ==
    /\ now < MaxTime
    /\ now' = now + 1
    /\ \E content \in FileContents \ {metiers_file.content} :
          metiers_file' = [exists |-> TRUE, mtime |-> now + 1, readable |-> TRUE,
                           content |-> content]
    /\ UNCHANGED <<active_workflows, runVars, api_key, cacheVars>>

\* time passes
wait ==
    /\ now < MaxTime
    /\ now' = now + 1
    /\ UNCHANGED <<active_workflows, runVars, metiers_file, api_key, cacheVars>>

NextRace ==
    \/ \E id \in WorkflowIds :
          \/ read_current_time(id)
          \/ read_file_mtime(id)
          \/ check_cache_valid(id)
          \/ load_file(id)
          \/ store_cache(id)
          \/ store_timestamp(id)
    \/ modify_file
    \/ wait

SpecRace == Init /\ [][NextRace]_vars

-----------------------------------------------------------------------------
(* Properties of the run registry and of workflow_process (under Spec). *)

StatusOrder == <<"initializing">> \o Stages \o <<"completed">>

Follows(a, b) ==
    \E i \in 1..(Len(StatusOrder) - 1) : StatusOrder[i] = a /\ StatusOrder[i + 1] = b

Registry(id) == active_workflows[id]

IsRegistered(id) == id \in DOMAIN active_workflows

\* C1: a registered run's status only moves one step forward along
\* initializing, extraction, openai_extraction, openai_matching,
\* transformation, chargement, completed; the only other change is to failed,
\* and it is made from a status that is neither completed nor failed.  A run
\* enters the registry as initializing.
C1_StatusAdvances ==
    [][\A id \in WorkflowIds :
          /\ (~IsRegistered(id) /\ id \in DOMAIN active_workflows')
                => active_workflows'[id]["status"] = "initializing"
          /\ (IsRegistered(id) /\ active_workflows'[id]["status"] # Registry(id)["status"])
                => \/ Follows(Registry(id)["status"], active_workflows'[id]["status"])
                   \/ /\ active_workflows'[id]["status"] = "failed"
                      /\ Registry(id)["status"] \notin {"completed", "failed"}]_vars

\* one run has gone all the way to completed, another has failed
C1_Witness ==
    \E a, b \in WorkflowIds :
        /\ IsRegistered(a) /\ Registry(a)["status"] = "completed"
        /\ IsRegistered(b) /\ Registry(b)["status"] = "failed"

\* C2: the stages are invoked in the order extraction, openai_extraction,
\* openai_matching, transformation, chargement, each at most once; the first
\* gets the input record, each later one the record the one before returned;
\* and a stage is only invoked, and only runs, while the registry shows its
\* name as the run's status.
C2_StagesInOrder ==
    \A id \in WorkflowIds :
        /\ Len(calls[id]) <= Len(Stages)
        /\ \A i \in 1..Len(calls[id]) :
              /\ calls[id][i].stage = Stages[i]
              /\ calls[id][i].status = Stages[i]
              /\ i = 1 => calls[id][i].input =
                            (IF input_data[id] = NoneValue THEN [initial |-> "data"]
                             ELSE input_data[id])
              /\ i > 1 => /\ calls[id][i - 1].returned
                          /\ calls[id][i].input = calls[id][i - 1].output
        /\ pc[id].op = "call" =>
              /\ IsRegistered(id)
              /\ Registry(id)["status"] = pc[id].stage
              /\ Len(calls[id]) = StageNo(pc[id].stage) - 1

\* a run whose five stages have all returned
C2_Witness ==
    \E id \in WorkflowIds :
        /\ Len(calls[id]) = Len(Stages)
        /\ \A i \in 1..Len(Stages) : calls[id][i].returned

Last(s) == s[Len(s)]

Raised(id) == calls[id] # <<>> /\ ~Last(calls[id]).returned

\* C3: when workflow_process has ended for a registered run: if a stage
\* raised, the status is failed, the error is the fault's message, that stage
\* is the last one invoked and the caller gets the same fault; otherwise the
\* status is completed and the caller gets the record chargement returned.
C3_FaultOrCompletion ==
    \A id \in WorkflowIds :
        (IsRegistered(id) /\ pc[id].op = "done") =>
            IF \E i \in 1..Len(calls[id]) : ~calls[id][i].returned
            THEN /\ Raised(id)
                 /\ \A i \in 1..(Len(calls[id]) - 1) : calls[id][i].returned
                 /\ Registry(id)["status"] = "failed"
                 /\ Has(Registry(id), "error")
                 /\ Registry(id)["error"] = Last(calls[id]).raised
                 /\ outcome[id] = [kind |-> "raised", error |-> Last(calls[id]).raised]
            ELSE /\ Len(calls[id]) = Len(Stages)
                 /\ Last(calls[id]).stage = "chargement"
                 /\ Registry(id)["status"] = "completed"
                 /\ outcome[id] = [kind |-> "returned", value |-> Last(calls[id]).output]

\* both endings: a run that returned and a run whose third stage raised
C3_Witness ==
    \E a, b \in WorkflowIds :
        /\ pc[a].op = "done" /\ outcome[a].kind = "returned"
        /\ pc[b].op = "done" /\ outcome[b].kind = "raised"
        /\ Raised(b) /\ Last(calls[b]).stage = "openai_matching"

\* C4: a run record has an error field only when its status is failed.
C4_ErrorOnlyWhenFailed ==
    \A id \in WorkflowIds :
        (IsRegistered(id) /\ Has(Registry(id), "error")) => Registry(id)["status"] = "failed"

C4_Witness ==
    \E id \in WorkflowIds : IsRegistered(id) /\ Has(Registry(id), "error")

\* the call of workflow_process for id was made without registering id
Unregistered(id) == pc[id].op \notin {"idle", "rejected"} /\ ~IsRegistered(id)

\* C5: workflow_process called with an id that is not in the registry invokes
\* no stage, ends with a KeyError, and changes nothing in the registry: each
\* of its steps leaves the registry as it was, without an entry for the id.
C5_UnregisteredId ==
    [][\A id \in WorkflowIds :
          /\ Unregistered(id)' =>
                /\ calls'[id] = <<>>
                /\ pc'[id].op = "done" =>
                      outcome'[id] = [kind |-> "raised", error |-> "KeyError"]
          /\ (Unregistered(id) /\ pc'[id] # pc[id]) =>
                /\ active_workflows' = active_workflows
                /\ Unregistered(id)']_vars

\* the call has ended with the KeyError while another run is in the registry
C5_Witness ==
    \E id \in WorkflowIds :
        /\ Unregistered(id) /\ pc[id].op = "done"
        /\ outcome[id].kind = "raised"
        /\ active_workflows # EmptyDict

-----------------------------------------------------------------------------
(* One stage alone: a stage is called with a synthetic record, a record of  *)
(* the shape the stage before it returns to which a sentinel key is added.  *)

Sentinel == [sentinel |-> "kept"]

\* the file the catalog is read from in these calls
CatalogFile == [exists |-> TRUE, mtime |-> 1, readable |-> TRUE, content |-> "v1"]

\* a section of openai_extraction with three experiences: two with a poste,
\* and between them one that has none
ThreeExperiences ==
    [formations |-> <<>>,
     experiences_professionnelles |->
        << [periode |-> "2023", poste |-> "Vendeur", entreprise |-> "Bazar",
            description |-> "", competences |-> <<>>],
           [periode |-> "2019", poste |-> "", entreprise |-> "Acme",
            description |-> "", competences |-> <<>>],
           [periode |-> "2020-2022", poste |-> "Comptable", entreprise |-> "Acme",
            description |-> "Tenue des comptes", competences |-> <<"Excel">>] >>,
     status |-> "success",
     extraction_time |-> 1]

\* the records given to stage number s: those the stage before it returns,
\* with and without a catalog, and for transformation also those that come
\* straight from extraction, with no section of the two services
SyntheticRecords(s) ==
    LET r1 == {Sentinel} \cup
              { prepare_pdf_input_data(u.content, u.filename, u.content_type,
                                       [kind |-> "json", value |-> Sentinel]) :
                  u \in Uploads }
        r2 == { extraction(r, 1) @@ Sentinel : r \in r1 }
        r3 == { openai_extraction(r, "sk-test", reply, 1) :
                  r \in r2, reply \in ExtractionReplies }
              \cup { Sentinel @@ [success |-> TRUE] }
              \cup { Sentinel @@ [success |-> TRUE,
                                  openai_extracted |-> ThreeExperiences] }
        r4 == { openai_matching(r, "sk-test",
                                [i \in 1..Len(ExperiencesOf(r)) |-> reply],
                                load_metiers_reference(CatalogFile)) :
                  r \in r3, reply \in MatchReplies }
              \cup { openai_matching(r, "sk-test",
                                     [i \in 1..Len(ExperiencesOf(r)) |-> [kind |-> "raise"]],
                                     <<>>) : r \in r3 }
              \cup r2
        \* a record with a match, given two more texts: one with words in both cases, a short word and a
        \* most frequent word that comes second; one with twelve long words
        \* the last of which comes twice
        texts == { <<"chez", " ", "Comptable", " ", "Acme", " ", "COMPTABLE", " ",
                     "acme", " ", "de", " ", "Paris", " ", "comptable">>,
                   <<"alpha", " ", "bravo", " ", "charlie", " ", "delta", " ",
                     "echo", " ", "foxtrot", " ", "golf", " ", "hotel", " ",
                     "india", " ", "juliet", " ", "kilo", " ", "lima", "\n\n",
                     "lima">> }
        matched == { x \in r4 :
                      /\ Has(x, "extracted") /\ Has(x["extracted"], "text_content")
                      /\ Has(x, "openai_matching")
                      /\ x["openai_matching"]["status"] = "success"
                      /\ x["openai_matching"]["metiers_matches"] # <<>>
                      /\ x["openai_matching"]["metiers_matches"][1]["matches"] # <<>> }
        r4t == IF matched = {} THEN {}
               ELSE { [(CHOOSE x \in matched : TRUE)
                          EXCEPT !["extracted"]["text_content"] = text] :
                        text \in texts }
        r5 == { transformation(r, 1) @@ Sentinel : r \in r4 \cup r4t }
    IN  CASE s = 1 -> r1 [] s = 2 -> r2 [] s = 3 -> r3 [] s = 4 -> r4 \cup r4t
          [] OTHER -> r5

\* the call of one stage with a synthetic record is set up
stage_test ==
    /\ pc[FirstId].op \in {"idle", "set"}
    /\ \E s \in 1..Len(Stages) :
          \E record \in SyntheticRecords(s) :
              /\ data' = [data EXCEPT ![FirstId] = record]
              /\ pc' = [pc EXCEPT ![FirstId] = At("call", Stages[s])]
    /\ mode' = [mode EXCEPT ![FirstId] = "test"]
    /\ calls' = [calls EXCEPT ![FirstId] = <<>>]
    /\ response' = NoResponse
    /\ UNCHANGED <<active_workflows, input_data, fault, outcome, envVars, cacheVars>>

NextStages ==
    \/ stage_test
    \/ call_extraction(FirstId)
    \/ call_openai_extraction(FirstId)
    \/ call_openai_matching(FirstId)
    \/ call_transformation(FirstId)
    \/ call_chargement(FirstId)

SpecStages == Init /\ [][NextStages]_vars

-----------------------------------------------------------------------------
(* Properties of the records the stages return. *)

\* the calls of id's stages that have returned
ReturnedCalls(id) == { calls[id][i] : i \in {j \in 1..Len(calls[id]) : calls[id][j].returned} }

MergingStages == {"openai_extraction", "openai_matching"}

\* the key under which a merging stage puts its own section
SectionOf(stage) == IF stage = "openai_extraction" THEN "openai_extracted" ELSE stage

\* the top-level keys of the records the other three stages build
OwnKeys(stage) ==
    CASE stage = "extraction" -> {"extracted", "step", "pdf_available", "extraction_error"}
      [] stage = "transformation" -> {"transformed", "step", "success"}
      [] stage = "chargement" -> {"loaded", "step", "success"}

StepOf(stage) == IF stage = "chargement" THEN "load_complete" ELSE stage

\* C7: the record a stage returns has, as its step, the step value of that
\* stage, never that of an earlier one.
C7_StepNamesStage ==
    \A id \in WorkflowIds : \A c \in ReturnedCalls(id) :
        c.output["step"] = StepOf(c.stage)

-----------------------------------------------------------------------------
(* Properties of the reference catalog cache (under SpecCache). *)

\* the step is a call of get_metiers_reference
IsCall == ref_call'.seq # ref_call.seq

\* a call of get_metiers_reference has been made before
CalledBefore == ref_call.time >= 0

\* C8, as the specification states it: a call made less than CACHE_TTL
\* seconds after the call before it, the file not having been modified
\* between the two, returns the list that the call before it returned.
C8_SecondCallSameList ==
    [][(/\ IsCall
        /\ CalledBefore
        /\ now - ref_call.time < CACHE_TTL
        /\ ~ref_call.modified)
          => ref_call'.result = ref_call.result]_vars

\* C8, amended: a call made less than CACHE_TTL seconds after the load the
\* cache holds (not after the call before it), the cached list not being
\* empty and the file's mtime (0 for a missing file) not being newer than
\* the time of that load, returns the cached list, which is the list the
\* call before it returned, without loading the file and without changing
\* the cache.
C8_HitReturnsCachedList ==
    [][(/\ IsCall
        /\ _metiers_cache # <<>>
        /\ now - _metiers_cache_timestamp < CACHE_TTL
        /\ FileMtime(metiers_file) <= _metiers_cache_timestamp)
          => /\ ref_call'.result = _metiers_cache
             /\ ref_call'.result = ref_call.result
             /\ ~ref_call'.reloaded
             /\ _metiers_cache' = _metiers_cache
             /\ _metiers_cache_timestamp' = _metiers_cache_timestamp]_vars

\* the last call was served from a cache loaded at an earlier time, after the
\* file had been changed without its mtime becoming newer than the load
C8_Witness ==
    /\ CalledBefore
    /\ ~ref_call.reloaded
    /\ ref_call.result # <<>>
    /\ ref_call.time > ref_call.cached_at
    /\ ref_call.loaded_mtime # FileMtime(metiers_file)
    /\ ~ref_call.modified

\* C9, as the specification states it: a call made when the file is there
\* and its mtime is no longer the one it had at the cached load reloads the
\* file, and so does a call made CACHE_TTL seconds or more after the cached
\* load.
C9_ReloadOnChangedMtimeOrTtl ==
    [][(IsCall /\ CalledBefore)
          => /\ (metiers_file.exists /\ FileMtime(metiers_file) # ref_call.loaded_mtime)
                   => ref_call'.reloaded
             /\ now - _metiers_cache_timestamp >= CACHE_TTL => ref_call'.reloaded]_vars

\* C9, amended: a call reloads the file when the file's mtime is newer than
\* the time of the cached load, even within the TTL, and when CACHE_TTL
\* seconds or more have passed since the cached load; a file whose mtime has
\* changed to a value that is not newer than the time of the cached load (a
\* removed file counts as mtime 0) causes no reload while the cache is not
\* empty and the TTL has not elapsed.
C9_ReloadOnNewerMtimeOrTtl ==
    [][(IsCall /\ CalledBefore)
          => /\ FileMtime(metiers_file) > _metiers_cache_timestamp => ref_call'.reloaded
             /\ now - _metiers_cache_timestamp >= CACHE_TTL => ref_call'.reloaded
             /\ (/\ FileMtime(metiers_file) # ref_call.loaded_mtime
                 /\ FileMtime(metiers_file) <= _metiers_cache_timestamp
                 /\ now - _metiers_cache_timestamp < CACHE_TTL
                 /\ _metiers_cache # <<>>)
                   => ~ref_call'.reloaded]_vars

\* the last call found a cache that was neither empty nor expired and
\* reloaded the file, which was newer than the cache
C9_Witness ==
    /\ ref_call.reloaded
    /\ ref_call.cached # <<>>
    /\ ref_call.time - ref_call.cached_at < CACHE_TTL
    /\ ref_call.loaded_mtime > ref_call.cached_at

C11_MissingFileGivesEmpty ==
    [][(IsCall /\ ~metiers_file.exists) => ref_call'.result = <<>>]_vars

\* C11, amended: a call made while the file is missing returns the empty
\* catalog when the cache is empty or CACHE_TTL seconds or more have passed
\* since the cached load, the reload it attempts having failed; while the
\* cached list is not empty and the TTL has not elapsed, the missing file
\* counts as unmodified and the call returns the cached list, without an
\* attempt to load.
C11_MissingFileServedFromCache ==
    [][(IsCall /\ ~metiers_file.exists)
          => IF _metiers_cache # <<>> /\ now - _metiers_cache_timestamp < CACHE_TTL
             THEN /\ ref_call'.result = _metiers_cache
                  /\ ~ref_call'.reloaded
                  /\ ~ref_call'.failed
             ELSE /\ ref_call'.result = <<>>
                  /\ ref_call'.failed]_vars

\* the last call was made with the file missing and returned a cached list
C11_Witness ==
    /\ CalledBefore
    /\ ~metiers_file.exists
    /\ ~ref_call.modified
    /\ ~ref_call.reloaded
    /\ ref_call.result # <<>>

-----------------------------------------------------------------------------
(* Properties of the registry as the GET endpoints show it (under           *)
(* SpecRegistry).                                                           *)

\* the step is a status query for wid
IsStatusQuery(wid) == response'.endpoint = "status" /\ response'.workflow_id = wid

\* id was submitted to one of the two POST endpoints and accepted
Submitted(id) == mode[id] \in {"background", "sync"} /\ pc[id].op # "rejected"

\* the five stages of id's run have all returned
AllStagesReturned(id) ==
    Len(calls[id]) = Len(Stages) /\ \A i \in 1..Len(Stages) : calls[id][i].returned

\* the status query changes nothing but the answer it gives
QueryChangesNothing ==
    UNCHANGED <<active_workflows, pc, mode, input_data, data, calls, fault, outcome,
                envVars, cacheVars>>

\* C12, as the specification states it: a status query for a submitted run
\* whose workflow_process has not started answers initializing; one made
\* after the run's five stages have all returned answers completed; one for
\* an id that is not in the registry is a 404 and changes nothing.
C12_StatusQuery ==
    [][\A wid \in QueryIds : IsStatusQuery(wid) =>
          /\ (wid \in WorkflowIds /\ Submitted(wid) /\ pc[wid].op = "queued")
                => response'.code = 200 /\ response'.body.status = "initializing"
          /\ (wid \in WorkflowIds /\ AllStagesReturned(wid))
                => response'.code = 200 /\ response'.body.status = "completed"
          /\ wid \notin DOMAIN active_workflows
                => response'.code = 404 /\ QueryChangesNothing]_vars

\* C12, amended: a status query for a submitted run whose workflow_process
\* has not started answers initializing; one made after workflow_process has
\* returned, its five stages having returned, answers completed, while one
\* made after chargement has returned and before workflow_process writes the
\* final status still answers chargement; one for an id that is not in the
\* registry is a 404 and changes nothing.
C12_StatusQueryAfterReturn ==
    [][\A wid \in QueryIds : IsStatusQuery(wid) =>
          /\ (wid \in WorkflowIds /\ Submitted(wid) /\ pc[wid].op = "queued")
                => response'.code = 200 /\ response'.body.status = "initializing"
          /\ (wid \in WorkflowIds /\ AllStagesReturned(wid))
                => /\ response'.code = 200
                   /\ response'.body.status =
                         IF pc[wid] = At("set", "completed") THEN "chargement"
                         ELSE "completed"
          /\ wid \notin DOMAIN active_workflows
                => response'.code = 404 /\ QueryChangesNothing]_vars

\* a status query has just answered completed for a run, while an id that
\* is not in the registry exists
C12_Witness ==
    /\ response.endpoint = "status"
    /\ response.code = 200
    /\ response.body.status = "completed"
    /\ \E id \in WorkflowIds : ~IsRegistered(id)

\* C13: a run accepted by run_workflow or run_workflow_sync is in the
\* registry, with status initializing, from the step that accepts it, before
\* workflow_process starts: workflow_process never runs for such an id
\* without an entry, and a status query for such an id is never a 404.
C13_RegisteredBeforeStart ==
    \A id \in WorkflowIds : Submitted(id) =>
        /\ IsRegistered(id)
        /\ pc[id].op = "queued" => Registry(id)["status"] = "initializing"
        /\ fault[id] # "KeyError"
        /\ (response.endpoint = "status" /\ response.workflow_id = id)
              => response.code = 200

\* a status query has just been answered for a run accepted by
\* run_workflow, whose workflow_process has not started
C13_Witness ==
    \E id \in WorkflowIds :
        /\ mode[id] = "background"
        /\ pc[id].op = "queued"
        /\ response.endpoint = "status"
        /\ response.workflow_id = id
        /\ response.code = 200

\* C14: no step removes an entry of the registry; a run that has status
\* failed keeps it, and keeps its error string once it is written; the
\* listing shows every entry of the registry, and the status query every
\* entry it is asked for, with the status the registry holds, failed for a
\* failed run.
C14_RegistryOnlyGrows ==
    [][/\ DOMAIN active_workflows \subseteq DOMAIN active_workflows'
       /\ \A id \in DOMAIN active_workflows :
             active_workflows[id]["status"] = "failed" =>
                /\ active_workflows'[id]["status"] = "failed"
                /\ Has(active_workflows[id], "error") =>
                      /\ Has(active_workflows'[id], "error")
                      /\ active_workflows'[id]["error"] = active_workflows[id]["error"]
       /\ response'.endpoint = "active" =>
             /\ {r.workflow_id : r \in response'.body} = DOMAIN active_workflows'
             /\ \A r \in response'.body :
                   r.status = active_workflows'[r.workflow_id]["status"]
       /\ (response'.endpoint = "status" /\ response'.workflow_id \in DOMAIN active_workflows')
             => /\ response'.code = 200
                /\ response'.body.status =
                      active_workflows'[response'.workflow_id]["status"]]_vars

\* the listing has just shown a failed run, whose record has its error
\* string, next to a run that completed
C14_Witness ==
    /\ response.endpoint = "active"
    /\ \E r \in response.body :
          /\ r.status = "failed"
          /\ Has(Registry(r.workflow_id), "error")
    /\ \E r \in response.body : r.status = "completed"

-----------------------------------------------------------------------------
(* Properties of the submissions (under Spec). *)

\* the step is a submission to one of the two POST endpoints for id
IsSubmission(id) == pc[id] = Idle /\ mode'[id] \in {"background", "sync"}

\* C15, as the specification states it: every submission, one whose file has
\* no filename or no content type included, gives a run: the run is in the
\* registry and goes on to its stages, the fault being recorded in its
\* record.
C15_NamelessSubmissionRuns ==
    [][\A id \in WorkflowIds : IsSubmission(id) =>
          /\ id \in DOMAIN active_workflows'
          /\ pc'[id] = At("queued", "-")]_vars

\* C15, amended: a submission whose file has no filename or no content type
\* is refused with a 400 before any run exists: no entry is made in the
\* registry, workflow_process is not called and no stage runs, then or
\* later; the submissions that are accepted have both.
C15_NamelessSubmissionRefused ==
    [][\A id \in WorkflowIds :
          /\ IsSubmission(id) =>
                \/ /\ pc'[id] = At("rejected", "-")
                   /\ outcome'[id] = [kind |-> "http", code |-> 400]
                   /\ active_workflows' = active_workflows
                \/ /\ pc'[id] = At("queued", "-")
                   /\ input_data'[id]["pdf_filename"] # ""
                   /\ input_data'[id]["content_type"] # ""
          /\ pc[id].op = "rejected" =>
                /\ pc'[id] = pc[id]
                /\ id \notin DOMAIN active_workflows'
                /\ calls'[id] = <<>>]_vars

\* a submission has been refused while another run has gone through
C15_Witness ==
    \E a, b \in WorkflowIds :
        /\ pc[a] = At("rejected", "-")
        /\ outcome[a] = [kind |-> "http", code |-> 400]
        /\ ~IsRegistered(a)
        /\ IsRegistered(b) /\ Registry(b)["status"] = "completed"

-----------------------------------------------------------------------------
(* Properties of openai_extraction (under SpecStages). *)

\* the calls of stage that have returned
ReturnedCallsOf(stage) == { c \in ReturnedCalls(FirstId) : c.stage = stage }

\* the record has no document: pdf_available is false or absent, or it has
\* extraction_error
DocumentUnavailable(d) ==
    \/ ~Has(d, "pdf_available")
    \/ d["pdf_available"] = FALSE
    \/ Has(d, "extraction_error")

\* the record has no extracted text
NoText(d) ==
    \/ ~Has(d, "extracted")
    \/ ~Has(d["extracted"], "text_content")
    \/ d["extracted"]["text_content"] = <<>>

\* C16: when the document is unavailable or has extraction_error, else when
\* the extracted text is empty, else when no key is configured,
\* openai_extraction returns a record whose openai_extracted is the error of
\* that case, the three messages being different, and whose success is
\* false; the record is the same whatever the service would answer, and it
\* has every key of the input with its value.
C16_PreconditionErrors ==
    /\ Cardinality({ERROR_NO_PDF_DATA, ERROR_NO_TEXT_CONTENT, ERROR_API_KEY_MISSING}) = 3
    /\ \A c \in ReturnedCallsOf("openai_extraction") :
          (DocumentUnavailable(c.input) \/ NoText(c.input) \/ api_key = "") =>
             /\ c.output["openai_extracted"] =
                   [error |-> IF DocumentUnavailable(c.input) THEN ERROR_NO_PDF_DATA
                              ELSE IF NoText(c.input) THEN ERROR_NO_TEXT_CONTENT
                              ELSE ERROR_API_KEY_MISSING,
                    status |-> "error"]
             /\ c.output["success"] = FALSE
             /\ \A reply \in ExtractionReplies :
                   openai_extraction(c.input, api_key, reply, now) = c.output
             /\ \A k \in DOMAIN c.input : Has(c.output, k) /\ c.output[k] = c.input[k]

\* openai_extraction has returned the error of the second case for a record
\* with a document and no text, no key being configured either, and the
\* sentinel is in what it returned
C16_Witness ==
    \E c \in ReturnedCallsOf("openai_extraction") :
        /\ ~DocumentUnavailable(c.input)
        /\ NoText(c.input)
        /\ api_key = ""
        /\ c.output["openai_extracted"]["error"] = ERROR_NO_TEXT_CONTENT
        /\ Has(c.output, "sentinel")


\* the list the reply holds under key: its items when the reply is JSON, a
\* mapping, and the value under key is a list
ListGiven(reply, key) ==
    IF reply.kind = "json" /\ reply.value.t = "dict" /\ Has(reply.value.v, key)
       /\ reply.value.v[key].t = "list"
    THEN reply.value.v[key].v ELSE <<>>

\* the items of a list that are mappings, and those that came with every
\* field of the schema
Mappings(items) == SelectSeq(items, LAMBDA item : item.t = "dict")

Complete(items, schema) ==
    SelectSeq(items, LAMBDA item : item.t = "dict" /\ schema \subseteq DOMAIN item.v)

\* the value a validated record has for field k of a mapping of the reply
FieldOrDefault(given, k) ==
    IF k = "competences"
    THEN IF Has(given, k) /\ given[k].t = "list" THEN given[k].v ELSE <<>>
    ELSE IF Has(given, k) THEN given[k] ELSE ""

\* validated is, in order, the records of given, each with exactly the
\* fields of the schema, taken from the record or defaulted
ValidatedFrom(validated, given, schema) ==
    /\ Len(validated) = Len(given)
    /\ \A i \in 1..Len(given) :
          /\ DOMAIN validated[i] = schema
          /\ \A k \in schema : validated[i][k] = FieldOrDefault(given[i].v, k)

ExtractionSucceeded(c) ==
    /\ Has(c.output, "openai_extracted")
    /\ Get(c.output["openai_extracted"], "status", "") = "success"

\* C17 as stated: the validated lists of openai_extraction hold only the
\* records of the reply that came with every field of their schema, the
\* other ones being dropped.
C17_IncompleteRecordsDropped ==
    \A c \in ReturnedCallsOf("openai_extraction") :
       ExtractionSucceeded(c) =>
          LET reply == c.reply IN
             /\ ValidatedFrom(c.output["openai_extracted"]["formations"],
                              Complete(ListGiven(reply, "formations"), FORMATION_SCHEMA),
                              FORMATION_SCHEMA)
             /\ ValidatedFrom(c.output["openai_extracted"]["experiences_professionnelles"],
                              Complete(ListGiven(reply, "experiences_professionnelles"),
                                       EXPERIENCE_SCHEMA),
                              EXPERIENCE_SCHEMA)

\* C17: the validated lists of openai_extraction hold, in order, one record
\* for every item of the reply's list that is a mapping, and none for the
\* other items; each record has exactly the fields of its schema, a field
\* the mapping lacks being the empty string (competences the empty list,
\* also when it was given as something else than a list).
C17_MappingsKeptWithDefaults ==
    \A c \in ReturnedCallsOf("openai_extraction") :
       ExtractionSucceeded(c) =>
          LET reply == c.reply IN
             /\ ValidatedFrom(c.output["openai_extracted"]["formations"],
                              Mappings(ListGiven(reply, "formations")),
                              FORMATION_SCHEMA)
             /\ ValidatedFrom(c.output["openai_extracted"]["experiences_professionnelles"],
                              Mappings(ListGiven(reply, "experiences_professionnelles")),
                              EXPERIENCE_SCHEMA)

\* openai_extraction has returned two experiences out of a reply of three
\* items: the one without poste with an empty poste, the complete one as
\* given, and none for the item that is a string
C17_Witness ==
    \E c \in ReturnedCallsOf("openai_extraction") :
        /\ ExtractionSucceeded(c)
        /\ Len(c.output["openai_extracted"]["experiences_professionnelles"]) = 2
        /\ c.output["openai_extracted"]["experiences_professionnelles"][1]["poste"] = ""
        /\ c.output["openai_extracted"]["experiences_professionnelles"][2]["poste"] = "Comptable"
        /\ c.output["openai_extracted"]["formations"][1]["etablissement"] = ""

\* the reply is not parseable as JSON, or parses to something that is no
\* mapping
Unparseable(reply) ==
    \/ reply.kind = "text"
    \/ reply.kind = "json" /\ reply.value.t # "dict"

\* C18: when the service's reply is not parseable, or parses to a
\* non-mapping, openai_extraction returns: its section has formations = []
\* and experiences_professionnelles = [] with status success, and the run
\* goes on to openai_matching.
C18_UnparseableReplyGivesEmptyLists ==
    \A i \in 1..Len(calls[FirstId]) :
       LET c == calls[FirstId][i]
       IN  (c.stage = "openai_extraction" /\ c.returned /\ Unparseable(c.reply)) =>
              /\ c.output["openai_extracted"]["status"] = "success"
              /\ ~Has(c.output["openai_extracted"], "error")
              /\ c.output["openai_extracted"]["formations"] = <<>>
              /\ c.output["openai_extracted"]["experiences_professionnelles"] = <<>>
              /\ IF i = Len(calls[FirstId])
                 THEN pc[FirstId] \in {At("set", "openai_matching"),
                                       At("call", "openai_matching")}
                 ELSE calls[FirstId][i + 1].stage = "openai_matching"

\* the service answered openai_extraction with text that is no JSON, and
\* openai_matching has been called with the record of two empty lists
C18_Witness ==
    /\ Len(calls[FirstId]) = 3
    /\ calls[FirstId][2].stage = "openai_extraction"
    /\ calls[FirstId][2].reply = [kind |-> "text"]
    /\ calls[FirstId][2].output["openai_extracted"]["status"] = "success"
    /\ calls[FirstId][3].stage = "openai_matching"
    /\ calls[FirstId][3].input = calls[FirstId][2].output

\* this step is a call of openai_matching that returns
MatchingReturns ==
    /\ pc[FirstId] = At("call", "openai_matching")
    /\ Len(calls'[FirstId]) = Len(calls[FirstId]) + 1
    /\ Last(calls'[FirstId]).returned

\* the catalogs get_metiers_reference can give, and the answers of the
\* matching service to the calls made for the experiences of d
Catalogs == { <<>> } \cup { load_metiers_reference(
                  [exists |-> TRUE, mtime |-> 1, readable |-> TRUE, content |-> c]) :
                  c \in FileContents }

AnswersFor(d) == [1..Len(ExperiencesOf(d)) -> MatchReplies]

\* the previous stage did not succeed: success is false or absent, or there
\* is no openai_extracted
PreviousStageFailed(d) ==
    \/ ~Has(d, "success")
    \/ d["success"] = FALSE
    \/ ~Has(d, "openai_extracted")

\* the previous stage succeeded and the extracted experiences are empty
NoExperience(d) ==
    /\ ~PreviousStageFailed(d)
    /\ \/ ~Has(d["openai_extracted"], "experiences_professionnelles")
       \/ d["openai_extracted"]["experiences_professionnelles"] = <<>>

\* C19: when the previous stage did not succeed, openai_matching returns
\* status error with empty metiers_matches, and when the extracted
\* experiences are empty, status warning with empty metiers_matches; in both
\* cases get_metiers_reference is not called (the cache and the count of its
\* calls are unchanged) and the record returned is the same whatever the
\* catalog holds and whatever the matching service would answer.
C19_ShortCircuits ==
    [][ (MatchingReturns /\ (PreviousStageFailed(data[FirstId]) \/ NoExperience(data[FirstId]))) =>
           LET d == data[FirstId]
               out == Last(calls'[FirstId]).output
           IN  /\ out["openai_matching"]["status"] =
                     IF PreviousStageFailed(d) THEN "error" ELSE "warning"
               /\ out["openai_matching"]["metiers_matches"] = <<>>
               /\ UNCHANGED <<_metiers_cache, _metiers_cache_timestamp, ref_call>>
               /\ \A catalog \in Catalogs : \A replies \in AnswersFor(d) :
                     openai_matching(d, api_key, replies, catalog) = out
      ]_vars

\* openai_matching has returned the warning for a record of a successful
\* field extraction without experiences, and get_metiers_reference has never
\* been called
C19_Witness ==
    \E c \in ReturnedCallsOf("openai_matching") :
        /\ Get(c.input, "success", FALSE)
        /\ ExperiencesOf(c.input) = <<>>
        /\ c.output["openai_matching"]["status"] = "warning"
        /\ ref_call = NoCall

\* this step is a call of openai_matching that has called
\* get_metiers_reference and got an empty catalog
CatalogCameEmpty ==
    /\ MatchingReturns
    /\ ref_call'.seq # ref_call.seq
    /\ ref_call'.result = <<>>

\* C20: when the catalog openai_matching obtains is empty, the stage returns
\* openai_matching.status = error with empty metiers_matches and a top-level
\* success equal to false, and the record is the same whatever the matching
\* service would answer.
C20_EmptyCatalogFailsStage ==
    [][ CatalogCameEmpty =>
           LET d == data[FirstId]
               out == Last(calls'[FirstId]).output
           IN  /\ out["openai_matching"]["status"] = "error"
               /\ out["openai_matching"]["metiers_matches"] = <<>>
               /\ \A replies \in AnswersFor(d) :
                     openai_matching(d, api_key, replies, <<>>) = out
               /\ out["success"] = FALSE
      ]_vars

\* this step is a call of openai_matching that has called
\* get_metiers_reference and got a catalog that is not empty
CatalogCameFilled ==
    /\ MatchingReturns
    /\ ref_call'.seq # ref_call.seq
    /\ ref_call'.result # <<>>

\* C21: when openai_matching has a catalog that is not empty, metiers_matches
\* has exactly one entry for each experience whose poste is not empty, in
\* the order of the input, and no entry, hence no error note, for an
\* experience whose poste is empty or missing.
C21_OneEntryPerNamedExperience ==
    [][ CatalogCameFilled =>
           LET named == SelectSeq(ExperiencesOf(data[FirstId]),
                                  LAMBDA e : Has(e, "poste") /\ e["poste"] # "")
               metiers_matches ==
                   Last(calls'[FirstId]).output["openai_matching"]["metiers_matches"]
           IN  /\ Len(metiers_matches) = Len(named)
               /\ \A i \in 1..Len(named) :
                     metiers_matches[i]["poste"] = named[i]["poste"]
               /\ \A i \in 1..Len(metiers_matches) : metiers_matches[i]["poste"] # ""
      ]_vars

\* openai_matching has returned, for Vendeur, an experience without poste and
\* Comptable, the two entries Vendeur and Comptable in that order
C21_Witness ==
    \E c \in ReturnedCallsOf("openai_matching") :
        /\ Len(ExperiencesOf(c.input)) = 3
        /\ ExperiencesOf(c.input)[2]["poste"] = ""
        /\ Len(c.output["openai_matching"]["metiers_matches"]) = 2
        /\ c.output["openai_matching"]["metiers_matches"][1]["poste"] = "Vendeur"
        /\ c.output["openai_matching"]["metiers_matches"][2]["poste"] = "Comptable"

\* the answers of the matching service with which openai_matching(d) returns
\* out when the catalog is metiers_reference
AnswersGiving(d, metiers_reference, out) ==
    { replies \in AnswersFor(d) :
        openai_matching(d, api_key, replies, metiers_reference) = out }

\* C22: when the call of the matching service faults for one experience,
\* openai_matching does not abort: the entry of that experience has an empty
\* matches list and an error note, and the other experiences have their
\* entries.
C22_FaultGivesErrorNote ==
    [][ CatalogCameFilled =>
           LET d == data[FirstId]
               out == Last(calls'[FirstId]).output
               experiences == ExperiencesOf(d)
               \* the call raises, or its response is empty, or is not the
               \* JSON mapping with the four fields
               Faults(reply) ==
                   \/ reply.kind \in {"raise", "none", "text"}
                   \/ reply.kind = "json" /\ reply.value.t # "dict"
                   \/ reply.kind = "json" /\ reply.value.t = "dict"
                        /\ ~({"id", "code_rome", "libelle", "score"} \subseteq DOMAIN reply.value.v)
               at == SelectSeq([i \in 1..Len(experiences) |-> i],
                               LAMBDA i : /\ Has(experiences[i], "poste")
                                          /\ experiences[i]["poste"] # "")
           IN  \A replies \in AnswersGiving(d, ref_call'.result, out) :
                  /\ out["openai_matching"]["status"] = "success"
                  /\ Len(out["openai_matching"]["metiers_matches"]) = Len(at)
                  /\ \A k \in 1..Len(at) :
                        Faults(replies[at[k]]) =>
                           /\ out["openai_matching"]["metiers_matches"][k]["matches"] = <<>>
                           /\ Has(out["openai_matching"]["metiers_matches"][k], "error")
      ]_vars

\* C23: whatever the extraction or the matching service did (failed call,
\* malformed or empty response), openai_extraction and openai_matching
\* returned a record with their section, an error section when the call
\* failed or answered nothing, and workflow_process went on with the next
\* stage; a run none of whose stage calls raised is never failed and has no
\* error in the registry.
C23_ServiceFaultsStayInStage ==
    \A id \in WorkflowIds :
       /\ \A i \in 1..Len(calls[id]) :
             LET c == calls[id][i]
             IN  /\ (c.returned /\ c.stage = "openai_extraction") =>
                       /\ Has(c.output, "openai_extracted")
                       /\ Has(c.output["openai_extracted"], "status")
                       /\ c.output["openai_extracted"]["status"] =
                             IF c.reply = Unasked \/ c.reply.kind \in {"raise", "none"}
                             THEN "error" ELSE "success"
                       /\ c.reply.kind \in {"raise", "none"} =>
                             Has(c.output["openai_extracted"], "error")
                 /\ (c.returned /\ c.stage = "openai_matching") =>
                       /\ Has(c.output, "openai_matching")
                       /\ c.output["openai_matching"]["status"] \in
                             {"error", "warning", "success"}
                 /\ (c.returned /\ c.stage \in {"openai_extraction", "openai_matching"}) =>
                       IF i = Len(calls[id])
                       THEN pc[id] \in {At("set", NextStatus(c.stage)),
                                        At("call", NextStatus(c.stage))}
                       ELSE calls[id][i + 1].stage = NextStatus(c.stage)
       /\ (IsRegistered(id) /\ \A i \in 1..Len(calls[id]) : calls[id][i].returned) =>
             /\ Registry(id)["status"] # "failed"
             /\ ~Has(Registry(id), "error")

\* a run whose call of the extraction service failed has gone through the
\* five stages and is completed
C23_Witness ==
    /\ IsRegistered(FirstId)
    /\ Registry(FirstId)["status"] = "completed"
    /\ Len(calls[FirstId]) = 5
    /\ calls[FirstId][2].reply.kind = "raise"
    /\ calls[FirstId][2].output["openai_extracted"]["status"] = "error"

\* the record extraction returned is that of a valid document with text
TextBearing(d) ==
    /\ Has(d, "pdf_available") /\ d["pdf_available"] = TRUE
    /\ ~Has(d, "extraction_error")
    /\ Has(d, "extracted") /\ Has(d["extracted"], "text_content")
    /\ d["extracted"]["text_content"] # <<>>

\* the number of words of a text and the number of its characters
WordCount(text) == Cardinality({ i \in 1..Len(text) : text[i] \notin {" ", "\n\n"} })

RECURSIVE CharCount(_)
CharCount(text) == IF text = <<>> THEN 0 ELSE Len(text[1]) + CharCount(Tail(text))

\* the calls of id's stages, all returned, are at least n
ReturnedUpTo(id, n) ==
    /\ Len(calls[id]) >= n
    /\ \A i \in 1..n : calls[id][i].returned /\ calls[id][i].stage = Stages[i]

\* C24: in a run of a valid document with text while no key is configured,
\* openai_extraction's section is the error of the missing key,
\* transformation returns the statistics of the text (words, characters,
\* pages) with success true, and chargement returns load_status success
\* with an analysis summary and without metiers_matches.
C24_NoKeyEndToEnd ==
    \A id \in WorkflowIds :
       (api_key = "" /\ ReturnedUpTo(id, 1) /\ TextBearing(calls[id][1].output)) =>
          LET text == calls[id][1].output["extracted"]["text_content"]
          IN  /\ ReturnedUpTo(id, 2) =>
                    calls[id][2].output["openai_extracted"] =
                       [error |-> ERROR_API_KEY_MISSING, status |-> "error"]
              /\ ReturnedUpTo(id, 4) =>
                    /\ calls[id][4].output["success"] = TRUE
                    /\ calls[id][4].output["transformed"]["statistics"] =
                          [word_count |-> WordCount(text),
                           character_count |-> CharCount(text),
                           page_count |-> calls[id][1].output["extracted"]["num_pages"]]
              /\ ReturnedUpTo(id, 5) =>
                    /\ calls[id][5].output["loaded"]["load_status"] = "success"
                    /\ Has(calls[id][5].output["loaded"], "analysis_summary")
                    /\ calls[id][5].output["loaded"]["analysis_summary"]["word_count"] =
                          WordCount(text)
                    /\ ~Has(calls[id][5].output["loaded"], "metiers_matches")

\* the run of cv.pdf, two pages with seven words, has completed without a
\* key: the summary counts 7 words and 2 pages
C24_Witness ==
    /\ api_key = ""
    /\ ReturnedUpTo(FirstId, 5)
    /\ IsRegistered(FirstId) /\ Registry(FirstId)["status"] = "completed"
    /\ TextBearing(calls[FirstId][1].output)
    /\ calls[FirstId][1].output["extracted"]["num_pages"] = 2
    /\ calls[FirstId][4].output["transformed"]["statistics"] =
          [word_count |-> 7, character_count |-> 46, page_count |-> 2]
    /\ calls[FirstId][5].output["loaded"]["analysis_summary"]["word_count"] = 7
    /\ calls[FirstId][5].output["loaded"]["analysis_summary"]["page_count"] = 2

\* the input of extraction holds bytes that are no document
NotADocument(d) ==
    /\ Has(d, "pdf_content_b64")
    /\ d["pdf_content_b64"] = b64encode("garbage")

\* C25: in a run of bytes that are no valid document, extraction returns a
\* record with pdf_available true, extraction_error set and no text;
\* openai_extraction and openai_matching call no service (no reply is
\* asked, and the record of openai_matching depends neither on the catalog
\* nor on what the service would answer); transformation returns
\* success false without statistics; chargement returns load_status failed
\* with success false.
C25_InvalidDocumentEndToEnd ==
    \A id \in WorkflowIds :
       (Len(calls[id]) >= 1 /\ NotADocument(calls[id][1].input)) =>
          /\ calls[id][1].returned =>
                /\ ReturnedUpTo(id, 1)
                /\ calls[id][1].output["pdf_available"] = TRUE
                /\ Has(calls[id][1].output, "extraction_error")
                /\ ~Has(calls[id][1].output["extracted"], "text_content")
          /\ ReturnedUpTo(id, 2) =>
                /\ calls[id][2].reply = Unasked
                /\ calls[id][2].output["openai_extracted"]["status"] = "error"
          /\ ReturnedUpTo(id, 3) =>
                /\ calls[id][3].output["openai_matching"]["status"] = "error"
                /\ \A catalog \in Catalogs : \A replies \in AnswersFor(calls[id][3].input) :
                      openai_matching(calls[id][3].input, api_key, replies, catalog)
                         = calls[id][3].output
          /\ ReturnedUpTo(id, 4) =>
                /\ calls[id][4].output["success"] = FALSE
                /\ ~Has(calls[id][4].output["transformed"], "statistics")
          /\ ReturnedUpTo(id, 5) =>
                /\ calls[id][5].output["loaded"]["load_status"] = "failed"
                /\ calls[id][5].output["success"] = FALSE

\* the run of notes.txt, whose bytes are no document, has gone through the
\* five stages and chargement has returned load_status failed
C25_Witness ==
    /\ ReturnedUpTo(FirstId, 5)
    /\ NotADocument(calls[FirstId][1].input)
    /\ calls[FirstId][1].input["pdf_filename"] = "notes.txt"
    /\ calls[FirstId][5].output["loaded"]["load_status"] = "failed"
    /\ IsRegistered(FirstId) /\ Registry(FirstId)["status"] = "completed"

\* the answer of the matching service: one match with the score 0.9
OneMatch ==
    [kind |-> "json", value |->
        JDict([id |-> "M1203", code_rome |-> "M1203",
               libelle |-> "Comptabilité", score |-> JNum(9)])]

\* the entry of metiers_matches for Comptable with that one match
ComptableMatched ==
    [poste |-> "Comptable",
     matches |-> << [id |-> "M1203", code_rome |-> "M1203",
                     libelle |-> "Comptabilité", score |-> 9] >>]

\* in id's run the extraction service gave the one experience Comptable, the
\* catalog has rows, and openai_matching returned what it returns when the
\* matching service answers OneMatch
ComptableScenario(id) ==
    /\ ReturnedUpTo(id, 3)
    /\ calls[id][2].reply = OneExperience
    /\ load_metiers_reference(metiers_file) # <<>>
    /\ OneMatch \in MatchReplies
    /\ calls[id][3].output =
          openai_matching(calls[id][3].input, api_key, <<OneMatch>>,
                          load_metiers_reference(metiers_file))

\* C26: in a run whose field extraction gives the one experience Comptable,
\* with a catalog that has rows and a matching service answering one match
\* of score 0.9, the metiers_matches of the loaded record is exactly the one
\* entry for Comptable with exactly that match, and the run ends completed.
C26_OneMatchEndToEnd ==
    \A id \in WorkflowIds :
       ComptableScenario(id) =>
          /\ Len(ExperiencesOf(calls[id][3].input)) = 1
          /\ calls[id][3].output["openai_matching"]["metiers_matches"] = <<ComptableMatched>>
          /\ ReturnedUpTo(id, 5) =>
                /\ Has(calls[id][5].output["loaded"], "metiers_matches")
                /\ calls[id][5].output["loaded"]["metiers_matches"] = <<ComptableMatched>>
          /\ (ReturnedUpTo(id, 5) /\ pc[id].op = "done" /\ IsRegistered(id)) =>
                Registry(id)["status"] = "completed"

\* the run has ended completed and its loaded record has the one entry for
\* Comptable
C26_Witness ==
    /\ ComptableScenario(FirstId)
    /\ ReturnedUpTo(FirstId, 5)
    /\ pc[FirstId].op = "done"
    /\ IsRegistered(FirstId) /\ Registry(FirstId)["status"] = "completed"
    /\ calls[FirstId][5].output["loaded"]["metiers_matches"] = <<ComptableMatched>>

\* this step is a call of chargement that returns
ChargementReturns ==
    /\ pc[FirstId] = At("call", "chargement")
    /\ Len(calls'[FirstId]) = Len(calls[FirstId]) + 1
    /\ Last(calls'[FirstId]).returned

Terminal(id) ==
    /\ IsRegistered(id)
    /\ Registry(id)["status"] \in {"completed", "failed"}

\* C28: every registered run whose workflow_process has started eventually
\* has status completed or failed, each stage call and service call
\* returning or raising; once it is completed or failed its status never
\* changes again; and the step that makes it so is a step of its own
\* workflow_process, the write of completed or the write of failed.
C28_RunsEndAndStayEnded ==
    /\ \A id \in WorkflowIds : (/\ IsRegistered(id)
                                /\ pc[id].op \in {"queued", "set", "call",
                                                  "except_status", "except_error"})
                                  ~> Terminal(id)
    /\ [][ \A id \in WorkflowIds :
              /\ Terminal(id) =>
                    /\ IsRegistered(id)'
                    /\ Registry(id)'["status"] = Registry(id)["status"]
              /\ (~Terminal(id) /\ Terminal(id)') =>
                    /\ \/ pc[id] = At("set", "completed")
                       \/ pc[id].op = "except_status"
                    /\ pc'[id] # pc[id]
                    /\ \A other \in WorkflowIds \ {id} : pc'[other] = pc[other]
       ]_vars

\* one run has ended completed and the other one failed
C28_Witness ==
    /\ Terminal("w1") /\ Registry("w1")["status"] = "completed"
    /\ Terminal("w2") /\ Registry("w2")["status"] = "failed"
    /\ pc["w1"].op \in {"done", "responded"}
    /\ pc["w2"].op = "done"

\* this step is a step of workflow_process(id)
StepOfRun(id) ==
    /\ pc[id].op \in {"queued", "set", "call", "except_status", "except_error"}
    /\ pc'[id] # pc[id]

\* C29: in every interleaving of the runs, a step of workflow_process for a
\* run changes at most the status and the error of that run's registry
\* entry: its workflow_name, start_time and input_data, and every field of
\* the other run's entry, are unchanged; and the status a run ends with is
\* the one its own stage calls give, completed when its five calls returned
\* and failed when one of them raised.
C29_RunsWriteOwnEntryOnly ==
    /\ [][ LET \* the registry entry of id is the same after the step, but
               \* for the fields in written
               EntryKept(id, written) ==
                   /\ (id \in DOMAIN active_workflows') <=> (id \in DOMAIN active_workflows)
                   /\ id \in DOMAIN active_workflows =>
                         \A k \in (DOMAIN active_workflows[id] \cup DOMAIN active_workflows'[id]) \ written :
                             /\ k \in DOMAIN active_workflows[id]
                             /\ k \in DOMAIN active_workflows'[id]
                             /\ active_workflows'[id][k] = active_workflows[id][k]
           IN
           \A id \in WorkflowIds :
              StepOfRun(id) =>
                 /\ EntryKept(id, {"status", "error"})
                 /\ \A other \in WorkflowIds \ {id} : EntryKept(other, {})
       ]_vars
    /\ [](\A id \in WorkflowIds :
             (IsRegistered(id) /\ pc[id].op = "done") =>
                Registry(id)["status"] =
                   IF \A i \in 1..Len(calls[id]) : calls[id][i].returned
                   THEN "completed" ELSE "failed")

\* the two runs are under way at the same time, each registered with its
\* own status: the first one in openai_matching, the second one in
\* extraction
C29_Witness ==
    /\ pc["w1"] = At("call", "openai_matching")
    /\ pc["w2"] = At("call", "extraction")
    /\ IsRegistered("w1") /\ Registry("w1")["status"] = "openai_matching"
    /\ IsRegistered("w2") /\ Registry("w2")["status"] = "extraction"
    /\ Registry("w1")["input_data"] # Registry("w2")["input_data"]

\* C30: whenever a thread judges the cache valid (not empty, younger than
\* the TTL, the file's mtime it has just read, and which is still the
\* file's, not newer than the cache timestamp), the cached list is what the
\* file holds now, whatever the other thread's call and the modifications of
\* the file did in between.
C30_ValidCacheIsCurrent ==
    \A id \in WorkflowIds :
       (/\ frame[id].at = "check"
        /\ frame[id].file_mtime = FileMtime(metiers_file)
        /\ JudgedValid(id))
          => _metiers_cache = load_metiers_reference(metiers_file)

\* C31: a registered run whose input has no pdf_content_b64 (input_data
\* absent and replaced by the placeholder, or a record without the key)
\* goes through the five stages without asking a service and without
\* loading the catalog: extraction marks pdf_available false, transformation
\* returns its input under transformed with the step alone, chargement
\* returns load_status success with a storage reference and no
\* analysis_summary, and the run whose five calls returned ends completed.
C31_NoPayloadRun ==
    /\ [](\A id \in WorkflowIds :
             (ReturnedUpTo(id, 1) /\ ~Has(calls[id][1].input, "pdf_content_b64")) =>
                /\ calls[id][1].output["pdf_available"] = FALSE
                /\ ReturnedUpTo(id, 2) =>
                      /\ calls[id][2].reply = Unasked
                      /\ ~CallsExtractionService(calls[id][2].input, api_key)
                /\ ReturnedUpTo(id, 3) => ~LoadsCatalog(calls[id][3].input)
                /\ ReturnedUpTo(id, 4) =>
                      calls[id][4].output =
                         [transformed |-> calls[id][4].input, step |-> "transformation"]
                /\ ReturnedUpTo(id, 5) =>
                      /\ calls[id][5].output["loaded"]["load_status"] = "success"
                      /\ Has(calls[id][5].output["loaded"], "storage_reference")
                      /\ ~Has(calls[id][5].output["loaded"], "analysis_summary")
                /\ (ReturnedUpTo(id, 5) /\ IsRegistered(id) /\ pc[id].op = "done") =>
                      /\ Registry(id)["status"] = "completed"
                      /\ ~Has(Registry(id), "error"))
    /\ [][ \A id \in WorkflowIds :
              (/\ StepOfRun(id) /\ pc[id].op \in {"set", "call"}
               /\ ~Has(IF calls[id] = <<>> THEN data[id] ELSE calls[id][1].input,
                       "pdf_content_b64")) =>
                 UNCHANGED <<_metiers_cache, _metiers_cache_timestamp, ref_call>>
       ]_vars

\* the run started with no input_data has completed: the placeholder went
\* through the five stages
C31_Witness ==
    /\ input_data[FirstId] = NoneValue
    /\ mode[FirstId] = "direct"
    /\ ReturnedUpTo(FirstId, 5)
    /\ calls[FirstId][1].input = [initial |-> "data"]
    /\ calls[FirstId][1].output["pdf_available"] = FALSE
    /\ IsRegistered(FirstId) /\ Registry(FirstId)["status"] = "completed"

\* C32: when transformation reaches its computation (pdf_available true and
\* no extraction_error), cv_data has formations and
\* experiences_professionnelles, those of the section openai_extracted,
\* exactly when that section is there (an empty mapping counts as absent)
\* and its status is not error; it has metiers_matches, those of the section
\* openai_matching, exactly when that section is there and its status is not
\* error, a warning forwarding the empty list; and the record has success
\* true and a transformation_time.
C32_CvDataFromSections ==
    \A c \in ReturnedCallsOf("transformation") :
       (Get(c.input, "pdf_available", FALSE) /\ ~Has(c.input, "extraction_error")) =>
          LET cv_data == c.output["transformed"]["cv_data"]
              openai_data == Get(c.input, "openai_extracted", EmptyDict)
              openai_matching_data == Get(c.input, "openai_matching", EmptyDict)
              Usable(section) == section # EmptyDict /\ Get(section, "status", "") # "error"
          IN  /\ c.output["success"] = TRUE
              /\ Has(c.output["transformed"], "transformation_time")
              /\ Has(cv_data, "formations") <=> Usable(openai_data)
              /\ Has(cv_data, "experiences_professionnelles") <=> Usable(openai_data)
              /\ Usable(openai_data) =>
                    /\ cv_data["formations"] = Get(openai_data, "formations", <<>>)
                    /\ cv_data["experiences_professionnelles"] =
                          Get(openai_data, "experiences_professionnelles", <<>>)
              /\ Has(cv_data, "metiers_matches") <=> Usable(openai_matching_data)
              /\ Usable(openai_matching_data) =>
                    cv_data["metiers_matches"] =
                       Get(openai_matching_data, "metiers_matches", <<>>)

\* transformation has computed for a record whose extraction section is a
\* success and whose matching section is an error (no catalog): cv_data has
\* the experiences and no metiers_matches
C32_Witness ==
    \E c \in ReturnedCallsOf("transformation") :
        /\ Get(c.input, "pdf_available", FALSE)
        /\ Has(c.input, "openai_extracted")
        /\ c.input["openai_extracted"]["status"] = "success"
        /\ Has(c.input, "openai_matching")
        /\ c.input["openai_matching"]["status"] = "error"
        /\ Has(c.output["transformed"]["cv_data"], "experiences_professionnelles")
        /\ c.output["transformed"]["cv_data"]["experiences_professionnelles"] # <<>>
        /\ ~Has(c.output["transformed"]["cv_data"], "metiers_matches")

\* C33: chargement returns load_status failed with success false exactly
\* when the success of its input is false, and otherwise, success true or
\* absent, load_status success with a storage reference and success true;
\* then analysis_summary is there exactly when transformed has statistics,
\* its top_keywords are the first five keywords in their order, and
\* metiers_matches is there, and is that of cv_data, exactly when transformed
\* has statistics and cv_data has metiers_matches.
C33_LoadFollowsSuccessFlag ==
    \A c \in ReturnedCallsOf("chargement") :
       LET loaded == c.output["loaded"]
           transformed_data == Get(c.input, "transformed", EmptyDict)
           keywords == Get(Get(transformed_data, "content_analysis", EmptyDict),
                           "keywords", <<>>)
           cv_data == Get(transformed_data, "cv_data", EmptyDict)
           refused == Has(c.input, "success") /\ c.input["success"] = FALSE
       IN  /\ (loaded["load_status"] = "failed" /\ c.output["success"] = FALSE) <=> refused
           /\ ~refused =>
                 /\ loaded["load_status"] = "success"
                 /\ c.output["success"] = TRUE
                 /\ Has(loaded, "storage_reference")
                 /\ Has(loaded, "analysis_summary") <=> Has(transformed_data, "statistics")
                 /\ Has(loaded, "analysis_summary") =>
                       LET top == loaded["analysis_summary"]["top_keywords"]
                       IN  /\ Len(top) = IF Len(keywords) < 5 THEN Len(keywords) ELSE 5
                           /\ \A i \in 1..Len(top) : top[i] = keywords[i]
                 /\ Has(loaded, "metiers_matches") <=>
                       (Has(transformed_data, "statistics") /\ Has(cv_data, "metiers_matches"))
                 /\ Has(loaded, "metiers_matches") =>
                       loaded["metiers_matches"] = cv_data["metiers_matches"]

\* chargement has returned for a transformed record with more than five
\* keywords and with a match: the summary has the first five, and the match
\* is forwarded
C33_Witness ==
    \E c \in ReturnedCallsOf("chargement") :
        /\ Has(c.input, "success") /\ c.input["success"] = TRUE
        /\ Has(c.input["transformed"], "statistics")
        /\ Len(c.input["transformed"]["content_analysis"]["keywords"]) > 5
        /\ Len(c.output["loaded"]["analysis_summary"]["top_keywords"]) = 5
        /\ Has(c.output["loaded"], "metiers_matches")
        /\ c.output["loaded"]["metiers_matches"] # <<>>

\* C34: the keywords transformation computes for a text are at most 10
\* words, each one a word of the text longer than 3 characters, lower-cased,
\* none twice; a word comes before another when it occurs more often among
\* the lower-cased words of the text, or as often and first in the text; and
\* a word that is left out occurs no more often than any word listed, which
\* happens only when 10 are listed.
C34_KeywordsRanked ==
    \A c \in ReturnedCallsOf("transformation") :
       (Get(c.input, "pdf_available", FALSE) /\ ~Has(c.input, "extraction_error")) =>
          LET text == Get(Get(c.input, "extracted", EmptyDict), "text_content", <<>>)
              keywords == c.output["transformed"]["content_analysis"]["keywords"]
              long == SelectSeq(text, LAMBDA w : w \notin {" ", "\n\n"} /\ Len(w) > 3)
              Count(w) == Cardinality({ i \in 1..Len(long) : Lower(long[i]) = w })
              First(w) == CHOOSE i \in 1..Len(long) :
                             /\ Lower(long[i]) = w
                             /\ \A j \in 1..(i - 1) : Lower(long[j]) # w
              listed == { keywords[i] : i \in 1..Len(keywords) }
              all == { Lower(long[i]) : i \in 1..Len(long) }
          IN  /\ Len(keywords) <= 10
              /\ listed \subseteq all
              /\ \A i \in 1..Len(keywords) :
                    Len(keywords[i]) > 3 /\ Lower(keywords[i]) = keywords[i]
              /\ Cardinality(listed) = Len(keywords)
              /\ \A i, j \in 1..Len(keywords) :
                    i < j =>
                       \/ Count(keywords[i]) > Count(keywords[j])
                       \/ /\ Count(keywords[i]) = Count(keywords[j])
                          /\ First(keywords[i]) < First(keywords[j])
              /\ \A w \in all \ listed :
                    /\ Len(keywords) = 10
                    /\ \A k \in listed : Count(w) <= Count(k)

\* transformation has ranked the text of twelve long words whose last comes
\* twice: that one is first, the nine that follow are the first nine of the
\* text, and two words are left out
C34_Witness ==
    \E c \in ReturnedCallsOf("transformation") :
        /\ Has(c.output["transformed"], "content_analysis")
        /\ c.output["transformed"]["content_analysis"]["keywords"] =
              <<"lima", "alpha", "bravo", "charlie", "delta", "echo", "foxtrot",
                "golf", "hotel", "india">>

\* C35: the status completed of a registered run says that its five stage
\* calls returned, and nothing about the record they returned: a run whose
\* five calls returned is completed with no error when workflow_process has
\* ended, also when its last record has load_status failed and success
\* false; and the status failed is there only when a stage call raised.
C35_CompletedMeansReturned ==
    \A id \in WorkflowIds :
       IsRegistered(id) =>
          /\ Registry(id)["status"] = "completed" => AllStagesReturned(id)
          /\ Registry(id)["status"] = "failed" => Raised(id)
          /\ (AllStagesReturned(id) /\ pc[id].op \in {"done", "responded"}) =>
                /\ Registry(id)["status"] = "completed"
                /\ ~Has(Registry(id), "error")
                /\ Last(calls[id]).output["loaded"]["load_status"] \in {"success", "failed"}

\* the background run of bytes that are no document has ended: its record
\* says load_status failed and success false, the registry says completed
\* and holds no error
C35_Witness ==
    /\ mode["w2"] = "background"
    /\ pc["w2"].op = "done"
    /\ AllStagesReturned("w2")
    /\ Last(calls["w2"]).output["loaded"]["load_status"] = "failed"
    /\ Last(calls["w2"]).output["success"] = FALSE
    /\ Registry("w2")["status"] = "completed"
    /\ ~Has(Registry("w2"), "error")

\* C36: a call of get_metiers_reference that finds the cached list empty
\* loads the file, whatever the age of the cache timestamp and the mtime of
\* the file: it returns and caches what the file holds at the call, so a
\* file that has appeared or become readable since the last call is picked
\* up by this one.
C36_EmptyCacheAlwaysReloads ==
    [][ (IsCall /\ _metiers_cache = <<>>) =>
           /\ ref_call'.reloaded
           /\ ref_call'.result = load_metiers_reference(metiers_file)
           /\ _metiers_cache' = load_metiers_reference(metiers_file)
           /\ _metiers_cache_timestamp' = now
      ]_vars

\* a call found the cache empty under a timestamp younger than the TTL and
\* not older than the file's mtime, the file having been written since the
\* call before, and it loaded the rows of the file
C36_Witness ==
    /\ ref_call.time >= 0
    /\ ref_call.cached = <<>>
    /\ ref_call.cached_at > 0
    /\ (ref_call.time - ref_call.cached_at) < CACHE_TTL
    /\ ref_call.loaded_mtime <= ref_call.cached_at
    /\ ref_call.reloaded
    /\ ref_call.result # <<>>
    /\ ~ref_call.modified
    /\ _metiers_cache = load_metiers_reference(metiers_file)

\* C37: the record a submission hands to workflow_process has the filename
\* and the content type of the uploaded file, those the registry entry
\* keeps, and a pdf_content_b64 that decodes to the bytes of that file,
\* whatever the additional data of the request holds.
C37_PayloadIsTheUpload ==
    \A id \in WorkflowIds :
       (IsRegistered(id) /\ mode[id] \in {"background", "sync"}) =>
          LET sent == Registry(id)["input_data"]
          IN  /\ input_data[id]["pdf_filename"] = sent["pdf_filename"]
              /\ input_data[id]["content_type"] = sent["content_type"]
              /\ \A u \in UploadsOf(id) :
                    (u.filename = sent["pdf_filename"]
                        /\ u.content_type = sent["content_type"]) =>
                       b64decode(input_data[id]["pdf_content_b64"]) =
                          [ok |-> TRUE, bytes |-> u.content]

\* C38: in every record openai_matching returns, the matches of each entry
\* of metiers_matches are none or one, and a match has the four fields id,
\* code_rome, libelle and score and no other; and when the service's answer
\* for an experience is a mapping that lacks one of the four, the matches of
\* that experience's entry are empty.
C38_MatchesWellFormed ==
    /\ [](\A c \in ReturnedCallsOf("openai_matching") :
             LET metiers_matches == c.output["openai_matching"]["metiers_matches"]
             IN  \A k \in 1..Len(metiers_matches) :
                    /\ Len(metiers_matches[k]["matches"]) \in {0, 1}
                    /\ \A m \in 1..Len(metiers_matches[k]["matches"]) :
                          DOMAIN metiers_matches[k]["matches"][m] = MATCH_FIELDS)
    /\ [][ CatalogCameFilled =>
              LET d == data[FirstId]
                  out == Last(calls'[FirstId]).output
                  experiences == ExperiencesOf(d)
                  at == SelectSeq([i \in 1..Len(experiences) |-> i],
                                  LAMBDA i : /\ Has(experiences[i], "poste")
                                             /\ experiences[i]["poste"] # "")
                  Partial(reply) ==
                      /\ reply.kind = "json"
                      /\ reply.value.t = "dict"
                      /\ ~(MATCH_FIELDS \subseteq DOMAIN reply.value.v)
              IN  \A replies \in AnswersGiving(d, ref_call'.result, out) :
                     \A k \in 1..Len(at) :
                        Partial(replies[at[k]]) =>
                           out["openai_matching"]["metiers_matches"][k]["matches"] = <<>>
         ]_vars

\* openai_matching has returned two entries, the first one with no match
\* and the second one with a match of four fields
C38_Witness ==
    \E c \in ReturnedCallsOf("openai_matching") :
        /\ c.output["openai_matching"]["status"] = "success"
        /\ Len(c.output["openai_matching"]["metiers_matches"]) = 2
        /\ c.output["openai_matching"]["metiers_matches"][1]["matches"] = <<>>
        /\ Len(c.output["openai_matching"]["metiers_matches"][2]["matches"]) = 1
        /\ c.output["openai_matching"]["metiers_matches"][2]["matches"][1]["score"] = 9
=============================================================================
